---- MODULE Spec2Model ----
(***************************************************************************)
(* A model of the choco-ml middle-end and RISC-V back-end: the CFG of an   *)
(* IrFunction, SSA construction (compute_idom, compute_df, build_dom_tree, *)
(* phi_insert, rename_pass), liveness, dead-code removal and the           *)
(* linear-scan register allocator.                                         *)
(*                                                                         *)
(* Conventions.  A Vec is a sequence, an Option<T> is a sequence of length *)
(* at most one (None = <<>>, Some(x) = <<x>>), a HashMap/BTreeMap is a     *)
(* function whose DOMAIN is the key set, a HashSet is a set.  Block        *)
(* indices are 0-based as in the source, so func.blocks is a function on   *)
(* 0..n-1.  Where the source iterates over a HashMap the model chooses     *)
(* the iteration order nondeterministically.                               *)
(***************************************************************************)
EXTENDS Naturals, Integers, Sequences, FiniteSets, TLC

VARIABLES
    blocks,        \* func.blocks : 0..n-1 -> [instrs, preds, succs]
    pc,            \* position in the operation that is running
    idom_vec,      \* compute_idom: let mut idom_vec
    b,             \* the for-loop index b of the operation that is running
    changed,       \* let mut changed of the operation that is running
    new_idom,      \* compute_idom: let mut new_idom
    others,        \* compute_idom: the part of `others` not yet visited
    finger1,       \* compute_idom: let mut finger1
    finger2,       \* compute_idom: let mut finger2
    idom,          \* SSAFormation.idom
    dom_frontier,  \* SSAFormation.dom_frontier
    dom_tree,      \* SSAFormation.dom_tree
    def_sites_map, \* SSAFormation::new: let def_sites_map
    counter,       \* SSAFormation::new: let mut counter
    stacks,        \* SSAFormation::new: let mut stacks
    frames,        \* the active calls of rename_pass, innermost last
    stacks_at_end, \* history: stacks when a block's instructions were renamed
    live_out,      \* compute_liveness: let mut live_out
    live_in,       \* compute_liveness: let mut live_in
    block_uses,    \* compute_liveness: let mut uses
    block_defs,    \* compute_liveness: let mut defs
    func_in,       \* history: func.blocks when the running operation was called
    kept,          \* history: per block, the indices of the instructions kept
    intervals,     \* linear_scan: the map `intervals` it is given
    live_intervals,         \* linear_scan: let mut live_intervals
    active_alloc_intervals, \* linear_scan: let mut active_alloc_intervals
    free_regs,     \* linear_scan: let mut free_regs
    curr_idx,      \* linear_scan: the index of curr_iv in live_intervals
    returned,      \* linear_scan: the map it returns
    label_to_idx,  \* IrFunction.label_to_idx
    curr_block_idx, \* wire_block_edges: the for-loop index
    functions,     \* IrModule.functions, by name
    passes,        \* PassManager.passes, by name
    func_idx,      \* PassManager::run: the position of `func` in the outer loop
    pass_idx,      \* PassManager::run: the position of `pass` in the inner loop
    run_log,       \* history: the calls of run_on_function and their results
    overflow_checks, \* whether the build checks integer overflow (debug) or not
    opt_block,     \* ConstantFoldPass, ConstantPropagationPass: the block the loop is at
    opt_instr,     \* the position in that block's instrs the inner loop is at
    const_env,     \* ConstantPropagationPass::run_on_function: const_env
    machine_func,  \* select_instructions: machine_func.blocks
    machine_block, \* select_instructions: machine_block.instrs
    vreg_mapping,  \* select_instructions: vreg_mapping
    next_vreg,     \* select_instructions: next_vreg
    sel_block,     \* select_instructions: the position of `block` in the outer loop
    sel_instr,     \* select_instructions: the position of `instr` in the inner loop
    sel_log,       \* history: each IR instruction selected and what was pushed for it
    instr_pos,     \* build_intervals: instr_pos, the global position of the instruction
    output,        \* emit_riscv: the lines printed
    lex_input,     \* Lexer.input, the bytes of the source text
    lex_pos,       \* Lexer.pos, a byte offset
    lex_entry,     \* history: pos when next_token was called
    lex_base,      \* next_token: let base
    lex_tokens     \* scan_all: let mut tokens, by kind

idomLocals == <<idom_vec, b, changed, new_idom, others, finger1, finger2>>

renameVars == <<def_sites_map, counter, stacks, frames, stacks_at_end>>

\* The state of the components other than SSA construction.
livenessVars == <<live_out, live_in, block_uses, block_defs>>

dceVars == <<func_in, kept>>

raVars == <<intervals, live_intervals, active_alloc_intervals, free_regs,
           curr_idx, returned>>

cfgVars == <<label_to_idx, curr_block_idx>>

pmVars == <<functions, passes, func_idx, pass_idx, run_log>>

optVars == <<overflow_checks, opt_block, opt_instr, const_env>>

selVars ==
    <<machine_func, machine_block, vreg_mapping, next_vreg, sel_block, sel_instr, sel_log,
      instr_pos>>

\* The state of the lexer.
lexVars == <<lex_input, lex_pos, lex_entry, lex_base, lex_tokens>>

\* The state of the pass manager, the constant passes, instruction
\* selection, emission and the lexer.
extVars == <<pmVars, optVars, selVars, output, lexVars>>

outsideSsa == <<livenessVars, dceVars, raVars, cfgVars, extVars>>

\* The state of SSA construction other than the loop index and flag.
ssaVars == <<idom_vec, new_idom, others, finger1, finger2, idom, dom_frontier,
             dom_tree, renameVars>>

\* The state of the middle-end.
irVars == <<blocks, b, changed, ssaVars, livenessVars, dceVars, cfgVars, extVars>>

\* The state of the components other than liveness and dead-code removal.
outsideDce == <<ssaVars, raVars, cfgVars, extVars>>

\* The state of the IR, its analyses and the register allocator.
coreVars == <<blocks, b, changed, ssaVars, livenessVars, dceVars, cfgVars, raVars>>

outsidePm == <<coreVars, optVars, selVars, output, lexVars>>

outsideOpt ==
    <<b, changed, ssaVars, livenessVars, kept, cfgVars, raVars, pmVars, selVars, output,
      lexVars>>

outsideSel ==
    <<b, changed, ssaVars, livenessVars, dceVars, cfgVars, pmVars, optVars, lexVars>>

\* The state of the components other than the lexer.
outsideLex == <<coreVars, pmVars, optVars, selVars, output>>

vars == <<blocks, pc, idomLocals, idom, dom_frontier, dom_tree, renameVars,
          outsideSsa>>

(***************************************************************************)
(* Bounds of the model and constants of the program.                       *)
(***************************************************************************)
\* Largest number of blocks of a generated CFG.
NBlocks == 4

\* usize::MAX, the "idom unknown" mark of compute_idom.  Only its being
\* larger than every block index matters; the value is the largest integer
\* of the model checker.
UsizeMax == 2147483647

\* A block ends in at most one Br, which names two labels.
MaxSuccs == 2

(***************************************************************************)
(* Generic helpers.                                                        *)
(***************************************************************************)
Range(s) == {s[i] : i \in 1..Len(s)}

Contains(s, x) == \E i \in 1..Len(s) : s[i] = x

Max(S) == CHOOSE x \in S : \A y \in S : y <= x

Min(S) == CHOOSE x \in S : \A y \in S : x <= y

\* The ascending sequence of the elements of a set of numbers.
RECURSIVE SortedSeq(_)
SortedSeq(S) ==
    IF S = {} THEN <<>> ELSE <<Min(S)>> \o SortedSeq(S \ {Min(S)})

\* No CFG is being built.
CfgIdle ==
    /\ label_to_idx = <<>>
    /\ curr_block_idx = 0

\* No pass manager is running.
PmIdle ==
    /\ functions = <<>>
    /\ passes = <<>>
    /\ func_idx = 0
    /\ pass_idx = 0
    /\ run_log = <<>>

\* No constant pass is running.
OptIdle ==
    /\ overflow_checks = FALSE
    /\ opt_block = 0
    /\ opt_instr = 0
    /\ const_env = <<>>

\* No instruction selection or emission is running.
SelIdle ==
    /\ machine_func = <<>>
    /\ machine_block = <<>>
    /\ vreg_mapping = <<>>
    /\ next_vreg = 0
    /\ sel_block = 0
    /\ sel_instr = 0
    /\ sel_log = <<>>
    /\ instr_pos = 0
    /\ output = <<>>

\* No lexer is running.
LexIdle ==
    /\ lex_input = <<>>
    /\ lex_pos = 0
    /\ lex_entry = 0
    /\ lex_base = 0
    /\ lex_tokens = <<>>

\* The components other than the IR, its analyses and the register
\* allocator are idle.
ExtIdle == PmIdle /\ OptIdle /\ SelIdle /\ LexIdle

\* No register allocation is running.
RaIdle ==
    /\ intervals = <<>>
    /\ live_intervals = <<>>
    /\ active_alloc_intervals = <<>>
    /\ free_regs = <<>>
    /\ curr_idx = 0
    /\ returned = <<>>

(***************************************************************************)
(* The function under analysis.                                            *)
(***************************************************************************)
N == Cardinality(DOMAIN blocks)

BlockIds == DOMAIN blocks

Preds(x) == blocks[x].preds

Succs(x) == blocks[x].succs

\* IrBasicBlock with the given lists (the label is the index).
IrBasicBlock(instrs, preds, succs) ==
    [instrs |-> instrs, preds |-> preds, succs |-> succs]

(***************************************************************************)
(* Names and instructions.  A String is the sequence of its characters,    *)
(* so that the SSA name format "{var}${count}" is modelled by what it      *)
(* builds.  An IrInstruction is a record with its variant in op and the    *)
(* fields of that variant.  TLC compares the same-named fields of any two  *)
(* records, so a field name has one type: the String args of Not is the    *)
(* field arg, and the Option dest of Call is the field opt_dest.           *)
(***************************************************************************)
BinaryOps == {"Add", "Mul", "Sub", "Div", "Eq", "Lt", "Gt", "Ge", "Le", "Or", "And"}

Add(dest, lhs, rhs) == [op |-> "Add", dest |-> dest, lhs |-> lhs, rhs |-> rhs]


Lt(dest, lhs, rhs) == [op |-> "Lt", dest |-> dest, lhs |-> lhs, rhs |-> rhs]

And(dest, lhs, rhs) == [op |-> "And", dest |-> dest, lhs |-> lhs, rhs |-> rhs]

Not(dest, args) == [op |-> "Not", dest |-> dest, arg |-> args]

Call(target_func, args, dest) ==
    [op |-> "Call", target_func |-> target_func, args |-> args, opt_dest |-> dest]

Br(cond, then_lbl, else_lbl) ==
    [op |-> "Br", cond |-> cond, then_lbl |-> then_lbl, else_lbl |-> else_lbl]

Jmp(label) == [op |-> "Jmp", label |-> label]

Ret(args) == [op |-> "Ret", args |-> args]

Phi(dest, sources) == [op |-> "Phi", dest |-> dest, sources |-> sources]

Const(dest, value) == [op |-> "Const", dest |-> dest, value |-> value]

PrintInstr(values) == [op |-> "Print", values |-> values]

Assign(lhs, rhs) == [op |-> "Assign", lhs |-> lhs, rhs |-> rhs]

\* Literal::Int(i)
Int_(i) == <<"Int", i>>

\* IrInstruction::defs: the names the instruction writes, as a sequence.
defs(instr) ==
    IF instr.op \in BinaryOps \cup {"Not", "Const", "Phi"} THEN <<instr.dest>>
    ELSE IF instr.op = "Assign" THEN <<instr.lhs>>
    ELSE IF instr.op = "Call" THEN instr.opt_dest
    ELSE <<>>

\* sources.iter().flatten().cloned().collect()
RECURSIVE Flatten(_)
Flatten(ss) == IF ss = <<>> THEN <<>> ELSE Head(ss) \o Flatten(Tail(ss))

\* IrInstruction::uses: the names the instruction reads, as a sequence.
uses(instr) ==
    IF instr.op \in BinaryOps THEN <<instr.lhs, instr.rhs>>
    ELSE IF instr.op = "Not" THEN <<instr.arg>>
    ELSE IF instr.op = "Br" THEN <<instr.cond>>
    ELSE IF instr.op \in {"Call", "Ret"} THEN instr.args
    ELSE IF instr.op = "Phi" THEN Flatten(instr.sources)
    ELSE IF instr.op = "Print" THEN instr.values
    ELSE <<>>

\* The decimal digits of a number, as format!("{}", count) prints them.
RECURSIVE Decimal(_)
Decimal(k) ==
    LET digit == <<"0", "1", "2", "3", "4", "5", "6", "7", "8", "9">>[(k % 10) + 1]
    IN  IF k < 10 THEN <<digit>> ELSE Append(Decimal(k \div 10), digit)

\* The names the instructions of a block define, in order.
RECURSIVE DefsOfInstrs(_)
DefsOfInstrs(instrs) ==
    IF instrs = <<>> THEN <<>> ELSE defs(Head(instrs)) \o DefsOfInstrs(Tail(instrs))

\* The Vec collect_defs builds for var: block x once per instruction of
\* x that defines var, in block order.
RECURSIVE DefSites(_, _, _)
DefSites(bl, var, x) ==
    IF x >= Cardinality(DOMAIN bl) THEN <<>>
    ELSE LET hits == SelectSeq(DefsOfInstrs(bl[x].instrs), LAMBDA v : v = var)
         IN  [i \in 1..Len(hits) |-> x] \o DefSites(bl, var, x + 1)

collect_defs(bl) ==
    LET names == UNION {Range(DefsOfInstrs(bl[x].instrs)) : x \in DOMAIN bl}
    IN  [var \in names |-> DefSites(bl, var, 0)]

(***************************************************************************)
(* Input CFGs.  A generated CFG has n <= NBlocks blocks, an entry without  *)
(* predecessors, at most MaxSuccs distinct successors per block, every     *)
(* block reachable from the entry, and each predecessor list ascending or  *)
(* descending.                                                             *)
(***************************************************************************)
SuccChoices(n) ==
    {SortedSeq(T) : T \in {U \in SUBSET (1..(n - 1)) : Cardinality(U) <= MaxSuccs}}

RECURSIVE ReachFrom(_, _)
ReachFrom(s, seen) ==
    LET nxt == seen \cup UNION {Range(s[x]) : x \in seen}
    IN  IF nxt = seen THEN seen ELSE ReachFrom(s, nxt)

AllReachable(s) == ReachFrom(s, {0}) = DOMAIN s

Sources(s, x) == {a \in DOMAIN s : Contains(s[a], x)}

Reverse(s) == [i \in 1..Len(s) |-> s[Len(s) + 1 - i]]

(***************************************************************************)
(* i64.  A value is its sign and its decimal digits, least significant     *)
(* first and without leading zeros (zero has no digit), so that values of  *)
(* the full width can be parsed, added, multiplied, divided and printed.   *)
(***************************************************************************)
DigitChars == <<"0", "1", "2", "3", "4", "5", "6", "7", "8", "9">>

DigitOf(c) == CHOOSE k \in 0..9 : DigitChars[k + 1] = c

\* The digits without the zeros at the most significant end.
RECURSIVE Trim(_)
Trim(mag) ==
    IF mag # <<>> /\ mag[Len(mag)] = 0 THEN Trim(SubSeq(mag, 1, Len(mag) - 1)) ELSE mag

RestOf(mag) == IF mag = <<>> THEN <<>> ELSE Tail(mag)

UnitOf(mag) == IF mag = <<>> THEN 0 ELSE Head(mag)

RECURSIVE MagAdd(_, _, _)
MagAdd(x, y, carry) ==
    IF x = <<>> /\ y = <<>>
    THEN IF carry = 0 THEN <<>> ELSE <<carry>>
    ELSE LET sum == UnitOf(x) + UnitOf(y) + carry
         IN  <<sum % 10>> \o MagAdd(RestOf(x), RestOf(y), sum \div 10)

\* x < y, for digits without leading zeros.
RECURSIVE MagLess(_, _)
MagLess(x, y) ==
    IF Len(x) # Len(y) THEN Len(x) < Len(y)
    ELSE IF x = <<>> THEN FALSE
    ELSE IF x[Len(x)] # y[Len(y)] THEN x[Len(x)] < y[Len(y)]
    ELSE MagLess(Trim(SubSeq(x, 1, Len(x) - 1)), Trim(SubSeq(y, 1, Len(y) - 1)))

\* x - y - borrow for x >= y + borrow, leading zeros included.
RECURSIVE MagSubDigits(_, _, _)
MagSubDigits(x, y, borrow) ==
    IF x = <<>> THEN <<>>
    ELSE LET diff == UnitOf(x) - UnitOf(y) - borrow
         IN  IF diff < 0
             THEN <<diff + 10>> \o MagSubDigits(RestOf(x), RestOf(y), 1)
             ELSE <<diff>> \o MagSubDigits(RestOf(x), RestOf(y), 0)

MagSub(x, y) == Trim(MagSubDigits(x, y, 0))

RECURSIVE MagMulDigit(_, _, _)
MagMulDigit(x, digit, carry) ==
    IF x = <<>>
    THEN IF carry = 0 THEN <<>> ELSE <<carry>>
    ELSE LET product == Head(x) * digit + carry
         IN  <<product % 10>> \o MagMulDigit(Tail(x), digit, product \div 10)

RECURSIVE MagMul(_, _)
MagMul(x, y) ==
    IF x = <<>> \/ y = <<>> THEN <<>>
    ELSE LET upper == MagMul(x, Tail(y))
         IN  IF upper = <<>>
             THEN Trim(MagMulDigit(x, Head(y), 0))
             ELSE Trim(MagAdd(MagMulDigit(x, Head(y), 0), <<0>> \o upper, 0))

\* How often y goes into x (x < 10 * y), and what is left.
RECURSIVE DigitDiv(_, _)
DigitDiv(x, y) ==
    IF MagLess(x, y) THEN [quot |-> 0, rem |-> x]
    ELSE LET next == DigitDiv(MagSub(x, y), y)
         IN  [quot |-> next.quot + 1, rem |-> next.rem]

\* Long division of x by y # 0: the digits of the quotient and of the
\* remainder.
RECURSIVE MagDivMod(_, _)
MagDivMod(x, y) ==
    IF x = <<>> THEN [quot |-> <<>>, rem |-> <<>>]
    ELSE LET upper == MagDivMod(Tail(x), y)
             step == DigitDiv(Trim(<<Head(x)>> \o upper.rem), y)
         IN  IF upper.rem = <<>> /\ Head(x) = 0
             THEN [quot |-> Trim(<<0>> \o upper.quot), rem |-> <<>>]
             ELSE [quot |-> Trim(<<step.quot>> \o upper.quot), rem |-> step.rem]

\* The value of sign and digits; zero is not negative.
Signed(neg, mag) == [neg |-> neg /\ mag # <<>>, mag |-> mag]

\* A small natural number as a value.
RECURSIVE MagOf(_)
MagOf(k) == IF k = 0 THEN <<>> ELSE <<k % 10>> \o MagOf(k \div 10)

I64(k) == Signed(FALSE, MagOf(k))

\* The mathematical sum, product and difference, and the quotient rounded
\* towards zero, of two values.
ExactAdd(x, y) ==
    IF x.neg = y.neg THEN Signed(x.neg, MagAdd(x.mag, y.mag, 0))
    ELSE IF MagLess(x.mag, y.mag) THEN Signed(y.neg, MagSub(y.mag, x.mag))
    ELSE Signed(x.neg, MagSub(x.mag, y.mag))

ExactMul(x, y) == Signed(x.neg # y.neg, MagMul(x.mag, y.mag))

ExactSub(x, y) == ExactAdd(x, Signed(~y.neg, y.mag))

ExactDiv(x, y) == Signed(x.neg # y.neg, MagDivMod(x.mag, y.mag).quot)

\* i64::MAX = 2^63 - 1, -i64::MIN = 2^63, and 2^64.
I64MaxMag == Reverse(<<9, 2, 2, 3, 3, 7, 2, 0, 3, 6, 8, 5, 4, 7, 7, 5, 8, 0, 7>>)

I64MinMag == Reverse(<<9, 2, 2, 3, 3, 7, 2, 0, 3, 6, 8, 5, 4, 7, 7, 5, 8, 0, 8>>)

TwoTo64 == Reverse(<<1, 8, 4, 4, 6, 7, 4, 4, 0, 7, 3, 7, 0, 9, 5, 5, 1, 6, 1, 6>>)

\* The value fits in an i64.
InI64(v) ==
    IF v.neg THEN ~MagLess(I64MinMag, v.mag) ELSE ~MagLess(I64MaxMag, v.mag)

\* The i64 congruent to v modulo 2^64: what an unchecked operation yields.
Wrapping(v) ==
    LET rem == MagDivMod(v.mag, TwoTo64).rem
        unsigned == IF v.neg /\ rem # <<>> THEN MagSub(TwoTo64, rem) ELSE rem
    IN  IF MagLess(unsigned, I64MinMag)
        THEN Signed(FALSE, unsigned)
        ELSE Signed(TRUE, MagSub(TwoTo64, unsigned))

\* str::parse::<i64>: an optional sign, then one or more ASCII digits, the
\* value within the range of i64; <<v>> for Ok(v), <<>> for Err.
parse(str) ==
    LET signed == str # <<>> /\ str[1] \in {"+", "-"}
        body == IF signed THEN Tail(str) ELSE str
        mag == Trim(Reverse([i \in 1..Len(body) |-> DigitOf(body[i])]))
        value == Signed(signed /\ str[1] = "-", mag)
    IN  IF body = <<>> \/ \E i \in 1..Len(body) : body[i] \notin Range(DigitChars)
        THEN <<>>
        ELSE IF InI64(value) THEN <<value>> ELSE <<>>

\* i64::to_string: a minus sign for a negative value, then the digits.
IntToString(v) ==
    LET digits == IF v.mag = <<>> THEN <<"0">>
                  ELSE Reverse([i \in 1..Len(v.mag) |-> DigitChars[v.mag[i] + 1]])
    IN  IF v.neg THEN <<"-">> \o digits ELSE digits

\* bool::to_string
BoolToString(v) ==
    IF v THEN <<"t", "r", "u", "e">> ELSE <<"f", "a", "l", "s", "e">>


\* The orders in which a predecessor list is generated: ascending (the order
\* in which add_edge is called block after block) and descending.
PredOrders(S) == {SortedSeq(S), Reverse(SortedSeq(S))}

\* The predecessor lists of blocks 0..k-1, as a sequence whose element x+1
\* is the list of block x.
RECURSIVE PredChoices(_, _)
PredChoices(s, k) ==
    IF k = 0 THEN {<<>>}
    ELSE {Append(q, p) : q \in PredChoices(s, k - 1),
                         p \in PredOrders(Sources(s, k - 1))}

\* The six-block diamond of the tests, with the edges of its drawing.
diamond_cfg ==
    LET preds == <<(<<>>), <<0>>, <<1>>, <<1>>, <<2, 3>>, <<4>>>>
        succs == <<(<<1>>), <<2, 3>>, <<4>>, <<4>>, <<5>>, (<<>>)>>
    IN  [i \in 0..5 |-> IrBasicBlock(<<>>, preds[i + 1], succs[i + 1])]

(***************************************************************************)
(* SSAFormation::compute_idom, one action per step of its loops.           *)
(***************************************************************************)
\* preds.iter().find(|&&p| idom_vec[p] != usize::MAX)
FirstProcessed(ps) ==
    LET I == {i \in 1..Len(ps) : idom_vec[ps[i]] # UsizeMax}
    IN  IF I = {} THEN <<>> ELSE <<ps[Min(I)]>>

\* A plausible bug: the other predecessors are not intersected.
OthersOf_NoIntersect(ps, first) == <<>>

\* preds.iter().copied().filter(|&p| p != new_idom && idom_vec[p] != usize::MAX)
OthersOf(ps, first) ==
    SelectSeq(ps, LAMBDA p : p # first /\ idom_vec[p] # UsizeMax)

IdomLocalsUnchanged == UNCHANGED <<new_idom, others, finger1, finger2>>

\* loop { let mut changed = false; for b in 1..n {
IdomLoop ==
    /\ pc = "idom_loop"
    /\ changed' = FALSE
    /\ b' = 1
    /\ pc' = "idom_for"
    /\ IdomLocalsUnchanged
    /\ UNCHANGED <<blocks, idom_vec, idom, dom_frontier, dom_tree, renameVars, outsideSsa>>

\* The head of one iteration of `for b in 1..n`, up to `let others`; at the
\* end of the range, `if !changed { break; }`.
IdomFor ==
    /\ pc = "idom_for"
    /\ IF b >= N
       THEN /\ pc' = IF changed THEN "idom_loop" ELSE "idom_collect"
            /\ UNCHANGED <<b, new_idom, others>>
       ELSE LET first == FirstProcessed(Preds(b))
            IN  IF first = <<>>
                THEN /\ b' = b + 1
                     /\ pc' = "idom_for"
                     /\ UNCHANGED <<new_idom, others>>
                ELSE /\ new_idom' = first[1]
                     /\ others' = OthersOf(Preds(b), first[1])
                     /\ pc' = "idom_others"
                     /\ UNCHANGED b
    /\ UNCHANGED <<blocks, idom_vec, changed, finger1, finger2, idom, dom_frontier>>
    /\ UNCHANGED <<dom_tree, renameVars, outsideSsa>>

\* `for p in others { let mut finger1 = p; let mut finger2 = new_idom;`, and
\* after the last one `if idom_vec[b] != new_idom { ... }`.
IdomOthers ==
    /\ pc = "idom_others"
    /\ IF others # <<>>
       THEN /\ finger1' = Head(others)
            /\ finger2' = new_idom
            /\ others' = Tail(others)
            /\ pc' = "idom_fingers"
            /\ UNCHANGED <<idom_vec, changed, b>>
       ELSE /\ IF idom_vec[b] # new_idom
               THEN /\ idom_vec' = [idom_vec EXCEPT ![b] = new_idom]
                    /\ changed' = TRUE
               ELSE UNCHANGED <<idom_vec, changed>>
            /\ b' = b + 1
            /\ pc' = "idom_for"
            /\ UNCHANGED <<others, finger1, finger2>>
    /\ UNCHANGED <<blocks, new_idom, idom, dom_frontier, dom_tree, renameVars, outsideSsa>>

\* A plausible bug: the comparison of the original algorithm, which numbers
\* the blocks in post-order.
FingerAbove_PostOrder(f, g) == f < g

\* finger1 > finger2
FingerAbove(f, g) == f > g

\* idom_vec[f]: an index outside the vector panics.
IdomAt(f) == IF f \in DOMAIN idom_vec THEN <<idom_vec[f]>> ELSE <<>>

\* One step of `while finger1 != finger2 { while finger1 > finger2 {..}
\* while finger2 > finger1 {..} }`, then `new_idom = finger1`.
IdomFingers ==
    /\ pc = "idom_fingers"
    /\ IF finger1 = finger2
       THEN /\ new_idom' = finger1
            /\ pc' = "idom_others"
            /\ UNCHANGED <<finger1, finger2>>
       ELSE IF FingerAbove(finger1, finger2)
       THEN IF IdomAt(finger1) = <<>>
            THEN pc' = "panic" /\ UNCHANGED <<new_idom, finger1, finger2>>
            ELSE /\ finger1' = IdomAt(finger1)[1]
                 /\ pc' = "idom_fingers"
                 /\ UNCHANGED <<new_idom, finger2>>
       ELSE IF IdomAt(finger2) = <<>>
            THEN pc' = "panic" /\ UNCHANGED <<new_idom, finger1, finger2>>
            ELSE /\ finger2' = IdomAt(finger2)[1]
                 /\ pc' = "idom_fingers"
                 /\ UNCHANGED <<new_idom, finger1>>
    /\ UNCHANGED <<blocks, idom_vec, b, changed, others, idom, dom_frontier>>
    /\ UNCHANGED <<dom_tree, renameVars, outsideSsa>>

\* self.idom.clear(); for (block, &dom) in idom_vec.iter().enumerate() {
\* if dom == usize::MAX { panic!(..) } self.idom.insert(block, dom); }
IdomCollect ==
    /\ pc = "idom_collect"
    /\ IF \E x \in BlockIds : idom_vec[x] = UsizeMax
       THEN pc' = "panic" /\ UNCHANGED idom
       ELSE idom' = idom_vec /\ pc' = "df"
    /\ IdomLocalsUnchanged
    /\ UNCHANGED <<blocks, idom_vec, b, changed, dom_frontier, dom_tree, renameVars, outsideSsa>>

(***************************************************************************)
(* SSAFormation::compute_df.                                               *)
(***************************************************************************)
\* A plausible bug: the block is pushed without the `contains` test.
DfAdd_NoContains(df, runner, x) ==
    LET old == IF runner \in DOMAIN df THEN df[runner] ELSE <<>>
    IN  [k \in DOMAIN df \cup {runner} |->
            IF k = runner THEN Append(old, x) ELSE df[k]]

\* let entry = self.dom_frontier.entry(runner).or_default();
\* if !entry.contains(&b) { entry.push(b); }
DfAdd(df, runner, x) ==
    LET old == IF runner \in DOMAIN df THEN df[runner] ELSE <<>>
        new == IF Contains(old, x) THEN old ELSE Append(old, x)
    IN  [k \in DOMAIN df \cup {runner} |-> IF k = runner THEN new ELSE df[k]]

\* while runner != idom_b { ...; runner = *self.idom.get(&runner).unwrap(); }
RECURSIVE DfRunner(_, _, _, _)
DfRunner(df, runner, idom_b, x) ==
    IF runner = idom_b THEN df
    ELSE DfRunner(DfAdd(df, runner, x), idom[runner], idom_b, x)

\* for &p in &block.preds { let mut runner = p; ... }
RECURSIVE DfPreds(_, _, _)
DfPreds(df, ps, x) ==
    IF ps = <<>> THEN df
    ELSE DfPreds(DfRunner(df, Head(ps), idom[x], x), Tail(ps), x)

\* for block in &func.blocks { ... if block.preds.len() < 2 { continue; } ... }
RECURSIVE DfBlocks(_, _)
DfBlocks(df, x) ==
    IF x >= N THEN df
    ELSE IF Len(Preds(x)) < 2 THEN DfBlocks(df, x + 1)
    ELSE DfBlocks(DfPreds(df, Preds(x), x), x + 1)

ComputeDf ==
    /\ pc = "df"
    /\ dom_frontier' = DfBlocks(<<>>, 0)
    /\ pc' = "dom_tree"
    /\ UNCHANGED <<blocks, idomLocals, idom, dom_tree, renameVars, outsideSsa>>

(***************************************************************************)
(* SSAFormation::build_dom_tree.  The loop runs over the HashMap idom, so  *)
(* the children of a block are pushed in any order.                        *)
(***************************************************************************)
RECURSIVE Perms(_)
Perms(S) ==
    IF S = {} THEN {<<>>}
    ELSE UNION {{<<x>> \o q : q \in Perms(S \ {x})} : x \in S}

DomChildren(p) == {x \in BlockIds : idom[x] = p /\ x # p}

DomParents == {idom[x] : x \in {y \in BlockIds : idom[y] # y}}

DomTreeChoices ==
    {dt \in [DomParents -> UNION {Perms(DomChildren(p)) : p \in DomParents}] :
        \A p \in DomParents : Range(dt[p]) = DomChildren(p)}

BuildDomTree ==
    /\ pc = "dom_tree"
    /\ dom_tree' \in DomTreeChoices
    /\ pc' = "phi_insert"
    /\ UNCHANGED <<blocks, idomLocals, idom, dom_frontier, renameVars, outsideSsa>>

(***************************************************************************)
(* SSAFormation::phi_insert, and the lines of SSAFormation::new around it. *)
(***************************************************************************)
\* A plausible bug: the Phi is pushed at the end of the block.
InsertPhi_AtEnd(instrs, phi) == Append(instrs, phi)

\* block.instrs.insert(0, IrInstruction::Phi { .. })
InsertPhi(instrs, phi) == <<phi>> \o instrs

\* IrInstruction::Phi { dest: var.clone(), sources: vec![None; block.preds.len()] }
NewPhi(var, block) == Phi(var, [k \in 1..Len(block.preds) |-> <<>>])

\* for &m in frontier { if has_phi.insert(m) { ...; worklist.push(m); } }
RECURSIVE PhiFrontier(_, _, _)
PhiFrontier(st, var, frontier) ==
    IF frontier = <<>> THEN st
    ELSE LET m == Head(frontier)
         IN  IF m \in st.has_phi
             THEN PhiFrontier(st, var, Tail(frontier))
             ELSE PhiFrontier(
                    [bl |-> [st.bl EXCEPT ![m].instrs =
                                InsertPhi(st.bl[m].instrs, NewPhi(var, st.bl[m]))],
                     has_phi |-> st.has_phi \cup {m},
                     worklist |-> Append(st.worklist, m)],
                    var, Tail(frontier))

\* while let Some(block_id_def) = worklist.pop() { ... }
RECURSIVE PhiWorklist(_, _)
PhiWorklist(st, var) ==
    IF st.worklist = <<>> THEN st.bl
    ELSE LET block_id_def == st.worklist[Len(st.worklist)]
             popped == [st EXCEPT !.worklist = SubSeq(st.worklist, 1, Len(st.worklist) - 1)]
         IN  IF block_id_def \in DOMAIN dom_frontier
             THEN PhiWorklist(PhiFrontier(popped, var, dom_frontier[block_id_def]), var)
             ELSE PhiWorklist(popped, var)

\* for (var, blocks_with_defs) in def_sites_map { ... }, in the order `order`.
RECURSIVE PhiVars(_, _, _)
PhiVars(bl, dsm, order) ==
    IF order = <<>> THEN bl
    ELSE LET var == Head(order)
         IN  PhiVars(PhiWorklist([bl |-> bl,
                                  has_phi |-> Range(dsm[var]),
                                  worklist |-> dsm[var]], var),
                     dsm, Tail(order))

\* Lines 46-56 of SSAFormation::new: collect_defs, phi_insert, the empty
\* counters and stacks, and the call rename_pass(0, ..).
PhiInsert ==
    /\ pc = "phi_insert"
    /\ def_sites_map' = collect_defs(blocks)
    /\ \E order \in Perms(DOMAIN def_sites_map') :
           blocks' = PhiVars(blocks, def_sites_map', order)
    /\ counter' = [var \in DOMAIN def_sites_map' |-> 0]
    /\ stacks' = [var \in DOMAIN def_sites_map' |-> <<>>]
    /\ frames' = <<[block_id |-> 0, entered |-> FALSE, rest |-> <<>>]>>
    /\ stacks_at_end' = <<>>
    /\ pc' = "rename"
    /\ UNCHANGED <<idomLocals, idom, dom_frontier, dom_tree, outsideSsa>>

(***************************************************************************)
(* rename_pass, current_name and create_new_name.  A call of rename_pass   *)
(* is a frame; RenameBody runs the body of the innermost call up to the    *)
(* recursion, RenameRecurse makes the next recursive call, RenameReturn    *)
(* runs the pops and returns.                                              *)
(***************************************************************************)
current_name(var, stk) ==
    IF var \in DOMAIN stk /\ stk[var] # <<>> THEN stk[var][Len(stk[var])] ELSE var

create_new_name(var, cnt, stk) ==
    LET count == (IF var \in DOMAIN cnt THEN cnt[var] ELSE 0) + 1
        new_var == var \o <<"$">> \o Decimal(count)
        old == IF var \in DOMAIN stk THEN stk[var] ELSE <<>>
    IN  [name |-> new_var,
         counter |-> [k \in DOMAIN cnt \cup {var} |-> IF k = var THEN count ELSE cnt[k]],
         stacks |-> [k \in DOMAIN stk \cup {var} |->
                        IF k = var THEN Append(old, new_var) ELSE stk[k]]]

\* for instr in .. { if let Phi { dest, .. } = instr { *dest = create_new_name(..) } }
RECURSIVE RenamePhis(_, _)
RenamePhis(st, i) ==
    IF i > Len(st.instrs) THEN st
    ELSE LET instr == st.instrs[i]
         IN  IF instr.op = "Phi"
             THEN LET r == create_new_name(instr.dest, st.counter, st.stacks)
                  IN  RenamePhis([instrs |-> [st.instrs EXCEPT ![i].dest = r.name],
                                  counter |-> r.counter, stacks |-> r.stacks], i + 1)
             ELSE RenamePhis(st, i + 1)

\* The match of the second loop of rename_pass on one instruction.
RenameInstr(instr, cnt, stk) ==
    LET same == [instr |-> instr, counter |-> cnt, stacks |-> stk]
        Cur(s) == [k \in 1..Len(s) |-> current_name(s[k], stk)]
    IN  IF instr.op = "Assign"
        THEN LET r == create_new_name(instr.lhs, cnt, stk)
             IN  [instr |-> [instr EXCEPT !.rhs = current_name(instr.rhs, stk),
                                          !.lhs = r.name],
                  counter |-> r.counter, stacks |-> r.stacks]
        ELSE IF instr.op = "Not"
        THEN LET r == create_new_name(instr.dest, cnt, stk)
             IN  [instr |-> [instr EXCEPT !.arg = current_name(instr.arg, stk),
                                          !.dest = r.name],
                  counter |-> r.counter, stacks |-> r.stacks]
        ELSE IF instr.op \in BinaryOps
        THEN LET r == create_new_name(instr.dest, cnt, stk)
             IN  [instr |-> [instr EXCEPT !.lhs = current_name(instr.lhs, stk),
                                          !.rhs = current_name(instr.rhs, stk),
                                          !.dest = r.name],
                  counter |-> r.counter, stacks |-> r.stacks]
        ELSE IF instr.op = "Call"
        THEN IF instr.opt_dest = <<>>
             THEN [same EXCEPT !.instr = [instr EXCEPT !.args = Cur(instr.args)]]
             ELSE LET r == create_new_name(instr.opt_dest[1], cnt, stk)
                  IN  [instr |-> [instr EXCEPT !.args = Cur(instr.args),
                                               !.opt_dest = <<r.name>>],
                       counter |-> r.counter, stacks |-> r.stacks]
        ELSE IF instr.op = "Print"
        THEN [same EXCEPT !.instr = [instr EXCEPT !.values = Cur(instr.values)]]
        ELSE IF instr.op = "Ret"
        THEN [same EXCEPT !.instr = [instr EXCEPT !.args = Cur(instr.args)]]
        ELSE same

\* for instr in blocks[block_id].instrs.iter_mut() { match instr { .. } }
RECURSIVE RenameInstrs(_, _)
RenameInstrs(st, i) ==
    IF i > Len(st.instrs) THEN st
    ELSE LET r == RenameInstr(st.instrs[i], st.counter, st.stacks)
         IN  RenameInstrs([instrs |-> [st.instrs EXCEPT ![i] = r.instr],
                           counter |-> r.counter, stacks |-> r.stacks], i + 1)

\* succ_block.preds.iter().position(|&p| p == block_id), counted from 1.
Position(ps, x) ==
    LET I == {i \in 1..Len(ps) : ps[i] = x}
    IN  IF I = {} THEN <<>> ELSE <<Min(I)>>

\* The Phi loop over one successor: sources[idx] = Some(current_name(dest, stacks)).
FillPhis(block, block_id, stk) ==
    [block EXCEPT !.instrs =
        [i \in 1..Len(block.instrs) |->
            LET instr == block.instrs[i]
            IN  IF instr.op = "Phi"
                THEN [instr EXCEPT !.sources[Position(block.preds, block_id)[1]] =
                                       <<current_name(instr.dest, stk)>>]
                ELSE instr]]

\* `.position(..).unwrap()` panics when a successor with a Phi does not list
\* the block among its predecessors.
FillPanics(bl, block_id) ==
    \E s \in Range(bl[block_id].succs) :
        /\ Position(bl[s].preds, block_id) = <<>>
        /\ \E i \in 1..Len(bl[s].instrs) : bl[s].instrs[i].op = "Phi"

\* for succ in func.blocks[block_id].succs.clone() { .. }
RECURSIVE FillSuccs(_, _, _, _)
FillSuccs(bl, succs, block_id, stk) ==
    IF succs = <<>> THEN bl
    ELSE FillSuccs([bl EXCEPT ![Head(succs)] = FillPhis(bl[Head(succs)], block_id, stk)],
                   Tail(succs), block_id, stk)

TopFrame == frames[Len(frames)]

RenameBody ==
    /\ pc = "rename"
    /\ ~TopFrame.entered
    /\ LET block_id == TopFrame.block_id
           st0 == [instrs |-> blocks[block_id].instrs, counter |-> counter,
                   stacks |-> stacks]
           st == RenameInstrs(RenamePhis(st0, 1), 1)
           renamed == [blocks EXCEPT ![block_id].instrs = st.instrs]
       IN  /\ counter' = st.counter
           /\ stacks' = st.stacks
           /\ stacks_at_end' =
                  [k \in DOMAIN stacks_at_end \cup {block_id} |->
                      IF k = block_id THEN st.stacks ELSE stacks_at_end[k]]
           /\ IF FillPanics(renamed, block_id)
              THEN /\ blocks' = renamed
                   /\ pc' = "panic"
                   /\ UNCHANGED frames
              ELSE /\ blocks' = FillSuccs(renamed, renamed[block_id].succs,
                                          block_id, st.stacks)
                   /\ frames' = [frames EXCEPT ![Len(frames)] =
                                    [block_id |-> block_id, entered |-> TRUE,
                                     rest |-> IF block_id \in DOMAIN dom_tree
                                              THEN dom_tree[block_id] ELSE <<>>]]
                   /\ pc' = "rename"
    /\ UNCHANGED <<idomLocals, idom, dom_frontier, dom_tree, def_sites_map, outsideSsa>>

\* for &child in child_blocks { rename_pass(child, ..); }
RenameRecurse ==
    /\ pc = "rename"
    /\ TopFrame.entered
    /\ TopFrame.rest # <<>>
    /\ frames' = Append([frames EXCEPT ![Len(frames)].rest = Tail(TopFrame.rest)],
                        [block_id |-> Head(TopFrame.rest), entered |-> FALSE,
                         rest |-> <<>>])
    /\ UNCHANGED <<blocks, pc, idomLocals, idom, dom_frontier, dom_tree,
                   def_sites_map, counter, stacks, stacks_at_end, outsideSsa>>

\* for var in instr.defs() { if stacks.contains_key(var) { stacks.get_mut(var)..pop(); } }
RECURSIVE PopDefs(_, _)
PopDefs(stk, vs) ==
    IF vs = <<>> THEN stk
    ELSE LET var == Head(vs)
         IN  IF var \in DOMAIN stk /\ stk[var] # <<>>
             THEN PopDefs([stk EXCEPT ![var] = SubSeq(stk[var], 1, Len(stk[var]) - 1)],
                          Tail(vs))
             ELSE PopDefs(stk, Tail(vs))

\* The pops at the end of rename_pass, and its return.
RenameReturn ==
    /\ pc = "rename"
    /\ TopFrame.entered
    /\ TopFrame.rest = <<>>
    /\ stacks' = PopDefs(stacks, DefsOfInstrs(blocks[TopFrame.block_id].instrs))
    /\ frames' = SubSeq(frames, 1, Len(frames) - 1)
    /\ pc' = IF Len(frames) = 1 THEN "ssa_done" ELSE "rename"
    /\ UNCHANGED <<blocks, idomLocals, idom, dom_frontier, dom_tree,
                   def_sites_map, counter, stacks_at_end, outsideSsa>>

(***************************************************************************)
(* Specification of compute_idom followed by compute_df on every input     *)
(* CFG.                                                                    *)
(***************************************************************************)
\* let mut idom_vec = vec![usize::MAX; n]; idom_vec[0] = 0;
IdomStart(bl) ==
    /\ blocks = bl
    /\ pc = "idom_loop"
    /\ idom_vec = [x \in DOMAIN bl |-> IF x = 0 THEN 0 ELSE UsizeMax]
    /\ b = 0
    /\ changed = FALSE
    /\ new_idom = 0
    /\ others = <<>>
    /\ finger1 = 0
    /\ finger2 = 0
    /\ idom = <<>>
    /\ dom_frontier = <<>>
    /\ dom_tree = <<>>
    /\ def_sites_map = <<>>
    /\ counter = <<>>
    /\ stacks = <<>>
    /\ frames = <<>>
    /\ stacks_at_end = <<>>
    /\ live_out = <<>>
    /\ live_in = <<>>
    /\ block_uses = <<>>
    /\ block_defs = <<>>
    /\ func_in = <<>>
    /\ kept = <<>>
    /\ RaIdle
    /\ CfgIdle
    /\ ExtIdle

GeneratedCfgs ==
    UNION {
      UNION {
        {[x \in 0..(n - 1) |-> IrBasicBlock(<<>>, q[x + 1], s[x])] :
            q \in PredChoices(s, n)} :
        s \in {t \in [0..(n - 1) -> SuccChoices(n)] : AllReachable(t)}} :
      n \in 1..NBlocks}

InitIdom == \E bl \in GeneratedCfgs \cup {diamond_cfg} : IdomStart(bl)

NextIdom ==
    \/ IdomLoop
    \/ IdomFor
    \/ IdomOthers
    \/ IdomFingers
    \/ IdomCollect
    \/ ComputeDf

SpecIdom == InitIdom /\ [][NextIdom]_vars

\* compute_idom is sequential code: a step that can be taken is taken.
SpecIdomFair == SpecIdom /\ WF_vars(NextIdom)

(***************************************************************************)
(* Specification of SSAFormation::new on small functions: a CFG shape, a   *)
(* terminator per block, and at most MaxInstrs other instructions over the *)
(* names x and y.                                                          *)
(***************************************************************************)
MaxInstrs == 2

X == <<"x">>

Y == <<"y">>

Label(x) == <<"L">> \o Decimal(x)

\* The successor lists of the shapes: an if-then-else diamond, an if-then
\* nested in an if-then, a while loop, and a block that loops on itself.
SsaShapes ==
    { <<(<<1, 2>>), <<3>>, <<3>>, (<<>>)>>,
      <<(<<1, 4>>), <<2, 3>>, <<3>>, <<4>>, (<<>>)>>,
      <<(<<1>>), <<2, 3>>, <<1>>, (<<>>)>>,
      <<(<<1>>), <<1, 2>>, (<<>>)>> }

\* The instruction that ends a block with the successors succs.
Terminator(succs) ==
    IF Len(succs) = 2 THEN Br(X, Label(succs[1]), Label(succs[2]))
    ELSE IF Len(succs) = 1 THEN Jmp(Label(succs[1]))
    ELSE Ret(<<X>>)

BodyInstrs ==
    { Const(X, Int_(I64(1))), Assign(X, Y), Assign(Y, X), Add(X, X, Y), Lt(X, X, Y),
      And(X, X, Y), Not(X, Y),
      Call(<<"f">>, <<X>>, <<X>>), Call(<<"f">>, <<X>>, <<>>), PrintInstr(<<X>>) }

\* k instructions placed in the blocks 0..n-1, block after block.
Placements(n, k) ==
    {p \in [1..k -> (0..(n - 1)) \X BodyInstrs] :
        \A i \in 1..(k - 1) : p[i][1] <= p[i + 1][1]}

BodyOf(p, x) ==
    LET mine == SelectSeq(p, LAMBDA e : e[1] = x)
    IN  [i \in 1..Len(mine) |-> mine[i][2]]

\* The function of shape sh with the placed instructions; the predecessor
\* lists are in the order in which wire_block_edges adds the edges.
ShapedFunction(sh, p) ==
    LET s == [x \in 0..(Len(sh) - 1) |-> sh[x + 1]]
    IN  [x \in DOMAIN s |->
            IrBasicBlock(Append(BodyOf(p, x), Terminator(s[x])),
                         SortedSeq(Sources(s, x)), s[x])]

\* create_def_sites of the tests on the six-block diamond.
create_def_sites ==
    [diamond_cfg EXCEPT ![2].instrs = <<Assign(X, <<"5">>)>>,
                        ![3].instrs = <<Assign(X, <<"1", "0">>)>>]

SsaInputs ==
    {create_def_sites} \cup
    UNION { UNION { {ShapedFunction(sh, p) : p \in Placements(Len(sh), k)} :
                    k \in 0..MaxInstrs } : sh \in SsaShapes }

InitSSA == \E bl \in SsaInputs : IdomStart(bl)

NextSSA ==
    \/ IdomLoop
    \/ IdomFor
    \/ IdomOthers
    \/ IdomFingers
    \/ IdomCollect
    \/ ComputeDf
    \/ BuildDomTree
    \/ PhiInsert
    \/ RenameBody
    \/ RenameRecurse
    \/ RenameReturn

SpecSSA == InitSSA /\ [][NextSSA]_vars

(***************************************************************************)
(* compute_liveness and compute_block_def_use.                             *)
(***************************************************************************)
\* for instr in block.instrs.iter() { defs first, then the uses not in defs }
RECURSIVE DefUseWalk(_, _)
DefUseWalk(instrs, acc) ==
    IF instrs = <<>> THEN acc
    ELSE LET d == acc.defs \cup Range(defs(Head(instrs)))
             u == acc.uses \cup {v \in Range(uses(Head(instrs))) : v \notin d}
         IN  DefUseWalk(Tail(instrs), [defs |-> d, uses |-> u])

compute_block_def_use(block) == DefUseWalk(block.instrs, [defs |-> {}, uses |-> {}])

\* Lines 6-17: the empty sets and the Use and Def sets of every block.
LiveDefUse ==
    /\ pc = "liveness"
    /\ live_out' = [x \in BlockIds |-> {}]
    /\ live_in' = [x \in BlockIds |-> {}]
    /\ block_uses' = [x \in BlockIds |-> compute_block_def_use(blocks[x]).uses]
    /\ block_defs' = [x \in BlockIds |-> compute_block_def_use(blocks[x]).defs]
    /\ pc' = "live_loop"
    /\ UNCHANGED <<blocks, b, changed, outsideDce, dceVars>>

\* loop { let mut changed = false; for b in (0..n).rev() {
LiveLoop ==
    /\ pc = "live_loop"
    /\ changed' = FALSE
    /\ IF N = 0
       THEN pc' = "live_check" /\ UNCHANGED b
       ELSE pc' = "live_for" /\ b' = N - 1
    /\ UNCHANGED <<blocks, outsideDce, livenessVars, dceVars>>

\* A plausible bug: a change of the sets is never noticed.
LiveDiffers_Never(old_in, new_in, old_out, new_out) == FALSE

\* if old_in != live_in[b] || old_out != live_out[b]
LiveDiffers(old_in, new_in, old_out, new_out) == old_in # new_in \/ old_out # new_out

\* The body of the for loop for block b.
LiveFor ==
    /\ pc = "live_for"
    /\ LET out == UNION {live_in[Succs(b)[k]] : k \in 1..Len(Succs(b))}
           differences == {var \in out : var \notin block_defs[b]}
           in == block_uses[b] \cup differences
       IN  /\ live_out' = [live_out EXCEPT ![b] = out]
           /\ live_in' = [live_in EXCEPT ![b] = in]
           /\ changed' = (changed \/ LiveDiffers(live_in[b], in, live_out[b], out))
    /\ IF b = 0
       THEN pc' = "live_check" /\ UNCHANGED b
       ELSE pc' = "live_for" /\ b' = b - 1
    /\ UNCHANGED <<blocks, block_uses, block_defs, outsideDce, dceVars>>

\* if !changed { break; }, and the return into eliminate_deadcode.
LiveCheck ==
    /\ pc = "live_check"
    /\ IF changed
       THEN pc' = "live_loop" /\ UNCHANGED b
       ELSE pc' = "dce" /\ b' = 0
    /\ UNCHANGED <<blocks, changed, outsideDce, livenessVars, dceVars>>

(***************************************************************************)
(* eliminate_deadcode: one step per block.                                 *)
(***************************************************************************)
\* for instr in block.instrs.iter().rev() { .. }: the indices of the
\* instructions pushed to new_instrs, after new_instrs.reverse().
RECURSIVE DceWalk(_, _, _, _)
DceWalk(instrs, i, live, new_instrs) ==
    IF i = 0 THEN new_instrs
    ELSE LET instr == instrs[i]
             first == IF defs(instr) = <<>> THEN {} ELSE {defs(instr)[1]}
         IN  IF first # {} /\ first \cap live = {}
             THEN DceWalk(instrs, i - 1, live, new_instrs)
             ELSE DceWalk(instrs, i - 1, (live \ first) \cup Range(uses(instr)),
                          <<i>> \o new_instrs)

DceBlock ==
    /\ pc = "dce"
    /\ b < N
    /\ LET new_instrs == DceWalk(blocks[b].instrs, Len(blocks[b].instrs),
                                 live_out[b], <<>>)
       IN  /\ blocks' = [blocks EXCEPT ![b].instrs =
                            [j \in 1..Len(new_instrs) |-> blocks[b].instrs[new_instrs[j]]]]
           /\ kept' = [x \in DOMAIN kept \cup {b} |->
                          IF x = b THEN new_instrs ELSE kept[x]]
    /\ b' = b + 1
    /\ pc' = IF b + 1 = N THEN "dce_done" ELSE "dce"
    /\ UNCHANGED <<changed, outsideDce, livenessVars, func_in>>

(***************************************************************************)
(* Specification of DeadCodeRemovalPass on the small functions.            *)
(***************************************************************************)
\* SSA construction is not running.
SsaIdle ==
    /\ idom_vec = <<>>
    /\ new_idom = 0
    /\ others = <<>>
    /\ finger1 = 0
    /\ finger2 = 0
    /\ idom = <<>>
    /\ dom_frontier = <<>>
    /\ dom_tree = <<>>
    /\ def_sites_map = <<>>
    /\ counter = <<>>
    /\ stacks = <<>>
    /\ frames = <<>>
    /\ stacks_at_end = <<>>

\* let (live_out, _live_in) = compute_liveness(func);
DceStart(bl) ==
    /\ blocks = bl
    /\ pc = "liveness"
    /\ b = 0
    /\ changed = FALSE
    /\ live_out = <<>>
    /\ live_in = <<>>
    /\ block_uses = <<>>
    /\ block_defs = <<>>
    /\ func_in = bl
    /\ kept = <<>>
    /\ RaIdle
    /\ CfgIdle
    /\ ExtIdle
    /\ SsaIdle

InitDCE == \E bl \in SsaInputs : DceStart(bl)

NextDCE ==
    \/ LiveDefUse
    \/ LiveLoop
    \/ LiveFor
    \/ LiveCheck
    \/ DceBlock

SpecDCE == InitDCE /\ [][NextDCE]_vars

\* The pass is sequential code: a step that can be taken is taken.
SpecDCEFair == SpecDCE /\ WF_vars(NextDCE)

(***************************************************************************)
(* LinearScan::linear_scan.  A VReg::Virtual(n) is the number n, a         *)
(* hardware register is its name.                                          *)
(***************************************************************************)
ALL_REGS ==
    <<"T0", "T1", "T2", "T3", "T4", "T5", "T6",
      "A0", "A1", "A2", "A3", "A4", "A5", "A6", "A7",
      "S1", "S2", "S3", "S4", "S5", "S6", "S7", "S8", "S9", "S10", "S11">>

Interval(start, end) ==
    [start |-> start, end |-> end, phy_reg |-> <<>>, mark_spilled |-> FALSE]

LiveIntervals(vreg, start, end) ==
    [vreg |-> vreg, start |-> start, end |-> end, phy_reg |-> <<>>,
     mark_spilled |-> FALSE]

\* The orders sort_by_key(|ivl| ivl.start) can leave the intervals of the
\* VRegs S in: the sort is stable and the HashMap is iterated in any order,
\* so intervals of equal start come in any order.
RECURSIVE SortedByStart(_, _)
SortedByStart(ivs, S) ==
    IF S = {} THEN {<<>>}
    ELSE LET first == {v \in S : \A w \in S : ivs[v].start <= ivs[w].start}
         IN  UNION {{<<LiveIntervals(v, ivs[v].start, ivs[v].end)>> \o q :
                        q \in SortedByStart(ivs, S \ {v})} : v \in first}

\* Lines 132-146.
ScanStart ==
    /\ pc = "scan_start"
    /\ live_intervals' \in SortedByStart(intervals, DOMAIN intervals)
    /\ active_alloc_intervals' = <<>>
    /\ free_regs' = ALL_REGS
    /\ curr_idx' = 1
    /\ pc' = IF DOMAIN intervals = {} THEN "scan_return" ELSE "scan_for"
    /\ UNCHANGED <<irVars, intervals, returned>>

\* sort_by_key(|x| x.end), a stable sort.
RECURSIVE SortByEnd(_)
SortByEnd(ivs) ==
    IF ivs = <<>> THEN <<>>
    ELSE LET front == SortByEnd(SubSeq(ivs, 1, Len(ivs) - 1))
             last == ivs[Len(ivs)]
             k == Cardinality({i \in 1..Len(front) : front[i].end <= last.end})
         IN  SubSeq(front, 1, k) \o <<last>> \o SubSeq(front, k + 1, Len(front))

\* The registers the retain closure pushes to free_regs.
RECURSIVE FreedRegs(_)
FreedRegs(expired) ==
    IF expired = <<>> THEN <<>> ELSE Head(expired).phy_reg \o FreedRegs(Tail(expired))

\* The body of `for curr_iv in live_intervals.iter_mut()`.
ScanStep ==
    /\ pc = "scan_for"
    /\ LET curr_iv == live_intervals[curr_idx]
           retained == SelectSeq(active_alloc_intervals,
                                 LAMBDA old_iv : ~(old_iv.end < curr_iv.start))
           expired == SelectSeq(active_alloc_intervals,
                                LAMBDA old_iv : old_iv.end < curr_iv.start)
           free == free_regs \o FreedRegs(expired)
           Done(iv) ==
               /\ live_intervals' = [live_intervals EXCEPT ![curr_idx] = iv]
               /\ intervals' = [intervals EXCEPT
                                   ![iv.vreg].phy_reg = iv.phy_reg,
                                   ![iv.vreg].mark_spilled = iv.mark_spilled]
               /\ curr_idx' = curr_idx + 1
               /\ pc' = IF curr_idx = Len(live_intervals)
                        THEN "scan_return" ELSE "scan_for"
       IN  IF free # <<>>
           THEN LET iv == [curr_iv EXCEPT !.phy_reg = <<free[Len(free)]>>]
                IN  /\ free_regs' = SubSeq(free, 1, Len(free) - 1)
                    /\ active_alloc_intervals' = SortByEnd(Append(retained, iv))
                    /\ Done(iv)
           ELSE IF retained = <<>>
           THEN /\ pc' = "panic"
                /\ active_alloc_intervals' = retained
                /\ free_regs' = free
                /\ UNCHANGED <<intervals, live_intervals, curr_idx>>
           ELSE LET worst == retained[Len(retained)]
                    popped == SubSeq(retained, 1, Len(retained) - 1)
                IN  /\ free_regs' = free
                    /\ IF worst.end > curr_iv.end
                       THEN LET iv == [curr_iv EXCEPT !.phy_reg = worst.phy_reg,
                                                      !.mark_spilled = FALSE]
                            IN  /\ active_alloc_intervals' = SortByEnd(Append(popped, iv))
                                /\ Done(iv)
                       ELSE /\ active_alloc_intervals' = Append(popped, worst)
                            /\ Done([curr_iv EXCEPT !.mark_spilled = TRUE])
    /\ UNCHANGED <<irVars, returned>>

\* live_intervals.into_iter().map(|iv| (iv.vreg, iv)).collect()
ScanReturn ==
    /\ pc = "scan_return"
    /\ returned' = [v \in {live_intervals[i].vreg : i \in 1..Len(live_intervals)} |->
                       live_intervals[CHOOSE i \in 1..Len(live_intervals) :
                                          live_intervals[i].vreg = v]]
    /\ pc' = "scan_done"
    /\ UNCHANGED <<irVars, intervals, live_intervals, active_alloc_intervals,
                   free_regs, curr_idx>>

(***************************************************************************)
(* Specification of linear_scan on interval maps that fill the register    *)
(* pool: intervals that start one after the other and end together, then   *)
(* at most MaxExtra intervals that start once the pool is full or nearly   *)
(* full.                                                                   *)
(***************************************************************************)
MaxExtra == 3

FillerCounts == {Len(ALL_REGS) - 1, Len(ALL_REGS)}

FillerEnds == {27, 40}

ExtraStarts == 26..28

ExtraEnds == {29, 35, 45}

\* The intervals of k extra VRegs, VReg after VReg in the order of start and end.
ExtraChoices(k) ==
    {e \in [1..k -> ExtraStarts \X ExtraEnds] :
        \A i \in 1..(k - 1) :
            \/ e[i][1] < e[i + 1][1]
            \/ e[i][1] = e[i + 1][1] /\ e[i][2] <= e[i + 1][2]}

IntervalMap(f, fend, e) ==
    [v \in 0..(f + Len(e) - 1) |->
        IF v < f THEN Interval(v, fend) ELSE Interval(e[v - f + 1][1], e[v - f + 1][2])]

RaInputs ==
    UNION { UNION { {IntervalMap(f, fend, e) : f \in FillerCounts, fend \in FillerEnds} :
                    e \in ExtraChoices(k) } : k \in 0..MaxExtra }

InitRA ==
    /\ intervals \in RaInputs
    /\ pc = "scan_start"
    /\ live_intervals = <<>>
    /\ active_alloc_intervals = <<>>
    /\ free_regs = <<>>
    /\ curr_idx = 0
    /\ returned = <<>>
    /\ blocks = <<>>
    /\ b = 0
    /\ changed = FALSE
    /\ SsaIdle
    /\ live_out = <<>>
    /\ live_in = <<>>
    /\ block_uses = <<>>
    /\ block_defs = <<>>
    /\ func_in = <<>>
    /\ kept = <<>>
    /\ CfgIdle
    /\ ExtIdle

NextRA ==
    \/ ScanStart
    \/ ScanStep
    \/ ScanReturn

SpecRA == InitRA /\ [][NextRA]_vars

(***************************************************************************)
(* Building a function: IrFunction::new, add_block, append_instr,          *)
(* add_edge, then wire_block_edges, then SSAFormation::compute_idom on     *)
(* the result.                                                             *)
(***************************************************************************)
MaxCfgBlocks == 3

MaxEdges == 2

\* The instructions appended while building: terminators whose labels may
\* or may not name a block, and an instruction that is no terminator.
WireInstrs ==
    { Jmp(Label(1)), Jmp(Label(2)), Br(X, Label(1), Label(2)), Ret(<<X>>),
      Const(X, Int_(I64(1))) }

InstrCount(bl) ==
    Len(Flatten([i \in 1..Cardinality(DOMAIN bl) |-> bl[i - 1].instrs]))

EdgeCount(bl) ==
    Len(Flatten([i \in 1..Cardinality(DOMAIN bl) |-> bl[i - 1].succs]))

\* IrFunction::add_block
AddBlock ==
    /\ pc = "build"
    /\ N < MaxCfgBlocks
    /\ \E label \in {Label(N), Label(0)} :
           /\ blocks' = [x \in 0..N |->
                            IF x = N THEN IrBasicBlock(<<>>, <<>>, <<>>) ELSE blocks[x]]
           /\ label_to_idx' = [l \in DOMAIN label_to_idx \cup {label} |->
                                  IF l = label THEN N ELSE label_to_idx[l]]
    /\ UNCHANGED <<pc, b, changed, ssaVars, livenessVars, dceVars, raVars, extVars,
                   curr_block_idx>>

\* IrFunction::append_instr
AppendInstr ==
    /\ pc = "build"
    /\ InstrCount(blocks) < MaxInstrs
    /\ \E idx \in BlockIds : \E instr \in WireInstrs :
           blocks' = [blocks EXCEPT ![idx].instrs = Append(@, instr)]
    /\ UNCHANGED <<pc, b, changed, ssaVars, livenessVars, dceVars, raVars, extVars, cfgVars>>

\* A plausible bug: the edge is registered in succs(from) only.
add_edge_NoPred(bl, from, to) == [bl EXCEPT ![from].succs = Append(@, to)]

\* IrFunction::add_edge
add_edge(bl, from, to) ==
    LET pushed == [bl EXCEPT ![from].succs = Append(@, to)]
    IN  [pushed EXCEPT ![to].preds = Append(@, from)]

\* A call of add_edge by the builder (an index out of range panics before
\* the call returns).
AddEdge ==
    /\ pc = "build"
    /\ EdgeCount(blocks) < MaxEdges
    /\ \E from \in BlockIds : \E to \in BlockIds :
           blocks' = add_edge(blocks, from, to)
    /\ UNCHANGED <<pc, b, changed, ssaVars, livenessVars, dceVars, raVars, extVars, cfgVars>>

\* IrFunction::block_index
block_index(label) ==
    IF label \in DOMAIN label_to_idx THEN <<label_to_idx[label]>> ELSE <<>>

\* The call of wire_block_edges.
WireStart ==
    /\ pc = "build"
    /\ func_in' = blocks
    /\ curr_block_idx' = 0
    /\ pc' = IF N = 0 THEN "wired" ELSE "wire"
    /\ UNCHANGED <<blocks, b, changed, ssaVars, livenessVars, kept, raVars, extVars,
                   label_to_idx>>

\* The body of `for curr_block_idx in 0..func.blocks.len()`; after the last
\* block wire_block_edges returns Ok(()).
WireStep ==
    /\ pc = "wire"
    /\ LET instrs == blocks[curr_block_idx].instrs
           terminator == instrs[Len(instrs)]
           Continue(bl) ==
               /\ blocks' = bl
               /\ curr_block_idx' = curr_block_idx + 1
               /\ pc' = IF curr_block_idx + 1 = N THEN "wired" ELSE "wire"
           Unwrap == pc' = "panic" /\ UNCHANGED <<blocks, curr_block_idx>>
       IN  IF instrs = <<>> THEN Continue(blocks)
           ELSE IF terminator.op = "Br"
           THEN LET then_idx == block_index(terminator.then_lbl)
                    else_idx == block_index(terminator.else_lbl)
                IN  IF then_idx = <<>> \/ else_idx = <<>> THEN Unwrap
                    ELSE Continue(add_edge(add_edge(blocks, curr_block_idx, then_idx[1]),
                                           curr_block_idx, else_idx[1]))
           ELSE IF terminator.op = "Jmp"
           THEN LET target_idx == block_index(terminator.label)
                IN  IF target_idx = <<>> THEN Unwrap
                    ELSE Continue(add_edge(blocks, curr_block_idx, target_idx[1]))
           ELSE IF terminator.op = "Ret" THEN Continue(blocks)
           ELSE IF curr_block_idx + 1 < N - 1
           THEN Continue(add_edge(blocks, curr_block_idx, curr_block_idx + 1))
           ELSE Continue(blocks)
    /\ UNCHANGED <<b, changed, ssaVars, livenessVars, dceVars, raVars, extVars, label_to_idx>>

\* SSAFormation::new on the wired function, up to the loop of compute_idom:
\* let mut idom_vec = vec![usize::MAX; n]; idom_vec[0] = 0;
SsaNew ==
    /\ pc = "wired"
    /\ IF N = 0
       THEN pc' = "panic" /\ UNCHANGED idom_vec
       ELSE /\ pc' = "idom_loop"
            /\ idom_vec' = [x \in BlockIds |-> IF x = 0 THEN 0 ELSE UsizeMax]
    /\ UNCHANGED <<blocks, b, changed, new_idom, others, finger1, finger2, idom,
                   dom_frontier, dom_tree, renameVars, outsideSsa>>

\* IrFunction::new
InitCFG ==
    /\ blocks = <<>>
    /\ label_to_idx = <<>>
    /\ curr_block_idx = 0
    /\ pc = "build"
    /\ b = 0
    /\ changed = FALSE
    /\ SsaIdle
    /\ live_out = <<>>
    /\ live_in = <<>>
    /\ block_uses = <<>>
    /\ block_defs = <<>>
    /\ func_in = <<>>
    /\ kept = <<>>
    /\ RaIdle
    /\ ExtIdle

NextCFG ==
    \/ AddBlock
    \/ AppendInstr
    \/ AddEdge
    \/ WireStart
    \/ WireStep
    \/ SsaNew
    \/ IdomLoop
    \/ IdomFor
    \/ IdomOthers
    \/ IdomFingers
    \/ IdomCollect

SpecCFG == InitCFG /\ [][NextCFG]_vars

(***************************************************************************)
(* The pass manager: PassManager::add_pass and PassManager::run.  A pass   *)
(* is named by FunctionPass::name.  The three passes of the crate return   *)
(* true from every run_on_function; FunctionPass is a public trait, and    *)
(* "OtherPass" stands for an implementor whose result is not fixed.  What  *)
(* a pass does to the function is the subject of the specifications of     *)
(* the passes; here a call is its place in the order and its result.       *)
(***************************************************************************)
MaxPasses == 3

MaxFunctions == 2

PassNames ==
    {"ConstantFoldPass", "ConstantPropagationPass", "DeadCodeRemovalPass", "OtherPass"}

\* What run_on_function can return.
run_on_function(pass) ==
    IF pass = "OtherPass" THEN BOOLEAN ELSE {TRUE}

\* `if !changed { break; }`: whether the inner loop goes on to the next pass.
InnerContinues_NoBreak(was_changed) == TRUE

InnerContinues(was_changed) == was_changed

\* PassManager::add_pass
AddPass ==
    /\ pc = "pm_new"
    /\ Len(passes) < MaxPasses
    /\ \E pass \in PassNames : passes' = Append(passes, pass)
    /\ UNCHANGED <<pc, outsidePm, functions, func_idx, pass_idx, run_log>>

\* PassManager::run: entering the loop over module.functions.
RunStart ==
    /\ pc = "pm_new"
    /\ pc' = "pm_run"
    /\ func_idx' = 1
    /\ pass_idx' = 1
    /\ UNCHANGED <<outsidePm, functions, passes, run_log>>

\* One iteration of the inner loop: the call and the test of its result.
RunPass ==
    /\ pc = "pm_run"
    /\ func_idx <= Len(functions)
    /\ pass_idx <= Len(passes)
    /\ \E was_changed \in run_on_function(passes[pass_idx]) :
           /\ run_log' = Append(run_log, [func |-> func_idx, pass |-> pass_idx,
                                          name |-> passes[pass_idx],
                                          result |-> was_changed])
           /\ IF InnerContinues(was_changed)
              THEN pass_idx' = pass_idx + 1 /\ UNCHANGED func_idx
              ELSE pass_idx' = 1 /\ func_idx' = func_idx + 1
    /\ UNCHANGED <<pc, outsidePm, functions, passes>>

\* The inner loop has run out of passes: the next function.
RunNextFunction ==
    /\ pc = "pm_run"
    /\ func_idx <= Len(functions)
    /\ pass_idx > Len(passes)
    /\ func_idx' = func_idx + 1
    /\ pass_idx' = 1
    /\ UNCHANGED <<pc, outsidePm, functions, passes, run_log>>

\* The outer loop has run out of functions.
RunReturn ==
    /\ pc = "pm_run"
    /\ func_idx > Len(functions)
    /\ pc' = "pm_done"
    /\ UNCHANGED <<outsidePm, pmVars>>

\* The functions of the module: f1, f2, ...
FunctionNames == [i \in 1..MaxFunctions |-> <<"f">> \o Decimal(i)]

\* No function is being built, analysed, transformed or allocated.
CoreIdle ==
    /\ blocks = <<>>
    /\ b = 0
    /\ changed = FALSE
    /\ SsaIdle
    /\ live_out = <<>>
    /\ live_in = <<>>
    /\ block_uses = <<>>
    /\ block_defs = <<>>
    /\ func_in = <<>>
    /\ kept = <<>>
    /\ RaIdle
    /\ CfgIdle

\* PassManager::new, and a module of up to MaxFunctions functions.
InitPM ==
    /\ pc = "pm_new"
    /\ CoreIdle
    /\ OptIdle
    /\ SelIdle
    /\ LexIdle
    /\ \E n \in 0..MaxFunctions : functions = SubSeq(FunctionNames, 1, n)
    /\ passes = <<>>
    /\ func_idx = 0
    /\ pass_idx = 0
    /\ run_log = <<>>

NextPM ==
    \/ AddPass
    \/ RunStart
    \/ RunPass
    \/ RunNextFunction
    \/ RunReturn

SpecPM == InitPM /\ [][NextPM]_vars

(***************************************************************************)
(* Constant folding: ConstantFoldPass::run_on_function, one instruction a  *)
(* step.  `left + right` and `left * right` are plain i64 operations: an   *)
(* exact result outside i64 panics when the build checks overflow (the     *)
(* default of a debug build) and wraps modulo 2^64 when it does not (the   *)
(* default of a release build).                                            *)
(***************************************************************************)
BinaryInstr(op, dest, lhs, rhs) == [op |-> op, dest |-> dest, lhs |-> lhs, rhs |-> rhs]

\* The arms of the match of ConstantFoldPass.
FoldedOps == {"Add", "Mul"}

\* Both operands parse: the instruction is not skipped by `continue`.
FoldApplies(instr) ==
    /\ instr.op \in FoldedOps
    /\ parse(instr.rhs) # <<>>
    /\ parse(instr.lhs) # <<>>

\* left + right, left * right as mathematical values.
FoldExact(instr) ==
    LET right == parse(instr.rhs)[1]
        left == parse(instr.lhs)[1]
    IN  IF instr.op = "Add" THEN ExactAdd(left, right) ELSE ExactMul(left, right)

\* The operation overflows i64.
FoldOverflows(instr) == FoldApplies(instr) /\ ~InI64(FoldExact(instr))

\* What the instruction is replaced by when the operation does not panic.
Fold(instr) ==
    IF FoldApplies(instr)
    THEN Const(instr.dest, Int_(Wrapping(FoldExact(instr))))
    ELSE instr

\* The body of the inner loop of a constant pass is done: the next
\* instruction.
OptAdvance ==
    /\ opt_instr' = opt_instr + 1
    /\ UNCHANGED opt_block

\* One iteration of `for instr in blocks.instrs.iter_mut()`.
FoldInstr ==
    /\ pc = "fold"
    /\ opt_block < N
    /\ opt_instr <= Len(blocks[opt_block].instrs)
    /\ LET instr == blocks[opt_block].instrs[opt_instr] IN
       IF FoldOverflows(instr) /\ overflow_checks
       THEN /\ pc' = "panic"
            /\ UNCHANGED <<blocks, opt_block, opt_instr>>
       ELSE /\ blocks' = [blocks EXCEPT ![opt_block].instrs[opt_instr] = Fold(instr)]
            /\ OptAdvance
            /\ UNCHANGED pc
    /\ UNCHANGED <<outsideOpt, func_in, overflow_checks, const_env>>

\* `for blocks in function.blocks.iter_mut()`: the block is done.
FoldNextBlock ==
    /\ pc = "fold"
    /\ opt_block < N
    /\ opt_instr > Len(blocks[opt_block].instrs)
    /\ opt_block' = opt_block + 1
    /\ opt_instr' = 1
    /\ UNCHANGED <<pc, blocks, outsideOpt, func_in, overflow_checks, const_env>>

\* run_on_function returns true.
FoldReturn ==
    /\ pc = "fold"
    /\ opt_block = N
    /\ pc' = "folded"
    /\ UNCHANGED <<blocks, outsideOpt, func_in, optVars>>

D == <<"d">>

I64MaxString == IntToString(Signed(FALSE, I64MaxMag))

I64MinString == IntToString(Signed(TRUE, I64MinMag))

\* Operand strings: literals, signed and padded literals, a name, the
\* empty string, the ends of the range of i64 and the first number beyond.
FoldOperands ==
    { <<"0">>, <<"2">>, <<"3">>, <<"-", "5">>, <<"+", "7">>, <<"0", "0", "7">>,
      X, <<>>, I64MaxString, I64MinString, IntToString(Signed(FALSE, I64MinMag)) }

ArithmeticOps == {"Add", "Sub", "Mul", "Div"}

\* A chain of blocks with the given instruction lists.
ChainFunction(bodies) ==
    [x \in 0..(Len(bodies) - 1) |->
        IrBasicBlock(bodies[x + 1],
                     IF x = 0 THEN <<>> ELSE <<x - 1>>,
                     IF x + 1 < Len(bodies) THEN <<x + 1>> ELSE <<>>)]

\* One arithmetic instruction on any two operand strings, followed by an
\* instruction of another kind or by the example of the specification, in
\* a function of one or two blocks.
FoldInputs ==
    { ChainFunction(bodies) :
        bodies \in
            { <<(<<first, second>>)>> \o rest :
                first \in { BinaryInstr(op, D, lhs, rhs) :
                              op \in ArithmeticOps, lhs \in FoldOperands,
                              rhs \in FoldOperands },
                second \in { Const(X, Int_(I64(1))), Add(D, <<"2">>, <<"3">>),
                             Lt(X, <<"2">>, <<"3">>) },
                rest \in { <<>>, <<(<<BinaryInstr("Mul", X, <<"2">>, <<"3">>),
                                      Ret(<<X>>)>>)>> } } }

\* A constant pass is given the function bl, in a build with or without
\* overflow checks.
OptStart(bl, start) ==
    /\ blocks = bl
    /\ func_in = bl
    /\ pc = start
    /\ b = 0
    /\ changed = FALSE
    /\ SsaIdle
    /\ live_out = <<>>
    /\ live_in = <<>>
    /\ block_uses = <<>>
    /\ block_defs = <<>>
    /\ kept = <<>>
    /\ RaIdle
    /\ CfgIdle
    /\ PmIdle
    /\ LexIdle
    /\ SelIdle
    /\ overflow_checks \in BOOLEAN
    /\ opt_block = 0
    /\ opt_instr = 1
    /\ const_env = <<>>

InitFold == \E bl \in FoldInputs : OptStart(bl, "fold")

NextFold ==
    \/ FoldInstr
    \/ FoldNextBlock
    \/ FoldReturn

SpecFold == InitFold /\ [][NextFold]_vars

(***************************************************************************)
(* Constant propagation: ConstantPropagationPass::run_on_function, one     *)
(* instruction a step.  const_env is created before the loop over the      *)
(* blocks and maps a name to the literal of the latest Const seen.         *)
(***************************************************************************)
\* Literal::Bool(v)
Bool_(v) == <<"Bool", v>>

\* `if let Some(Literal::Int(i)) = const_env.get(name).cloned().flatten()
\* { *name = i.to_string(); }`, and the same with Literal::Bool.
Substitute(env, name, kind) ==
    IF name \in DOMAIN env /\ env[name][1] = kind
    THEN IF kind = "Int" THEN IntToString(env[name][2]) ELSE BoolToString(env[name][2])
    ELSE name

\* The arms of the match that rewrite two operands.
PropagatedArithmetic == {"Add", "Mul", "Sub", "Div"}

PropagatedComparisons == {"Eq", "Lt", "Gt", "Ge"}

\* What the match leaves in place of the instruction.
Propagate(env, instr) ==
    CASE instr.op = "Assign" ->
             [instr EXCEPT !.rhs = Substitute(env, instr.rhs, "Int")]
      [] instr.op \in PropagatedArithmetic ->
             [instr EXCEPT !.lhs = Substitute(env, instr.lhs, "Int"),
                           !.rhs = Substitute(env, instr.rhs, "Int")]
      [] instr.op \in PropagatedComparisons ->
             [instr EXCEPT !.lhs = Substitute(env, instr.lhs, "Bool"),
                           !.rhs = Substitute(env, instr.rhs, "Bool")]
      [] instr.op = "Br" ->
             [instr EXCEPT !.cond = Substitute(env, instr.cond, "Bool")]
      [] instr.op = "Ret" ->
             [instr EXCEPT !.args = [i \in 1..Len(instr.args) |->
                                        Substitute(env, instr.args[i], "Int")]]
      [] OTHER -> instr

\* const_env.insert(dest.clone(), Some(value.clone()))
EnvInsert(env, instr) ==
    IF instr.op = "Const"
    THEN [name \in DOMAIN env \cup {instr.dest} |->
             IF name = instr.dest THEN instr.value ELSE env[name]]
    ELSE env

\* One iteration of `for instr in blocks.instrs.iter_mut()`.
PropInstr ==
    /\ pc = "prop"
    /\ opt_block < N
    /\ opt_instr <= Len(blocks[opt_block].instrs)
    /\ LET instr == blocks[opt_block].instrs[opt_instr] IN
       /\ const_env' = EnvInsert(const_env, instr)
       /\ blocks' = [blocks EXCEPT
                        ![opt_block].instrs[opt_instr] = Propagate(const_env, instr)]
    /\ OptAdvance
    /\ UNCHANGED <<pc, outsideOpt, func_in, overflow_checks>>

\* `for blocks in function.blocks.iter_mut()`: the block is done.
PropNextBlock ==
    /\ pc = "prop"
    /\ opt_block < N
    /\ opt_instr > Len(blocks[opt_block].instrs)
    /\ opt_block' = opt_block + 1
    /\ opt_instr' = 1
    /\ UNCHANGED <<pc, blocks, outsideOpt, func_in, overflow_checks, const_env>>

\* run_on_function returns true.
PropReturn ==
    /\ pc = "prop"
    /\ opt_block = N
    /\ pc' = "propagated"
    /\ UNCHANGED <<blocks, outsideOpt, func_in, optVars>>

A == <<"a">>

R == <<"r">>

\* Consts of both kinds of literal, and readers of a in every kind of
\* operand position.
PropInstrs ==
    { Const(A, Int_(I64(7))), Const(A, Bool_(TRUE)),
      Const(Y, Int_(Signed(TRUE, MagOf(5)))),
      BinaryInstr("Add", R, A, Y), BinaryInstr("Div", A, A, Y),
      BinaryInstr("Le", R, A, Y), BinaryInstr("Gt", R, Y, A),
      BinaryInstr("Or", R, A, Y),
      Assign(R, A), Not(R, A), Br(A, Label(1), Label(1)), Ret(<<A, Y>>) }

MaxPropInstrs == 2

PropBodies == UNION { [1..k -> PropInstrs] : k \in 0..MaxPropInstrs }

\* Functions of one or two blocks.
PropInputs ==
    { ChainFunction(<<first>>) : first \in PropBodies } \cup
    { ChainFunction(<<first, second>>) : first \in PropBodies, second \in PropBodies }

\* The pass does no arithmetic: one build stands for both.
InitProp ==
    \E bl \in PropInputs : OptStart(bl, "prop") /\ ~overflow_checks

NextProp ==
    \/ PropInstr
    \/ PropNextBlock
    \/ PropReturn

SpecProp == InitProp /\ [][NextProp]_vars

(***************************************************************************)
(* Instruction selection: select_instructions, one IR instruction a step.  *)
(* A VReg is a tuple: <<"Virtual", k>> for VReg::Virtual(k), <<"A0">> for   *)
(* VReg::A0.  A MachineInstr is a record; the Option rd of Ret is the      *)
(* field opt_rd.                                                           *)
(***************************************************************************)
Virtual(k) == <<"Virtual", k>>

Hardware(name) == <<name>>

\* `match i { 0 => VReg::A0, ..., 7 => VReg::A7 }`
ArgRegs == <<"A0", "A1", "A2", "A3", "A4", "A5", "A6", "A7">>

\* The closure allocate_reg applied to the names in turn: the mapping and
\* the counter afterwards, and the registers returned.
RECURSIVE allocate_reg(_, _, _)
allocate_reg(mapping, next, names) ==
    IF names = <<>> THEN [mapping |-> mapping, next |-> next, regs |-> <<>>]
    ELSE LET name == Head(names)
             known == name \in DOMAIN mapping
             entry == IF known THEN mapping[name] ELSE Virtual(next)
             inserted == IF known THEN mapping ELSE (name :> entry) @@ mapping
             rest == allocate_reg(inserted, IF known THEN next ELSE next + 1,
                                  Tail(names))
         IN  [rest EXCEPT !.regs = <<entry>> \o rest.regs]

\* The arguments of a Call with the stack offset taken from the index of
\* the argument instead of the index past the eighth.
ArgMoves_OffsetFromIndex(regs) ==
    [k \in 1..Len(regs) |->
        LET i == k - 1 IN
        IF i < 8
        THEN [op |-> "Mv", rd |-> Hardware(ArgRegs[i + 1]), rs1 |-> regs[k]]
        ELSE [op |-> "Sw", offset |-> i * 8, base |-> Hardware("SP"),
              rs1 |-> regs[k]]]

\* The machine instructions of the arguments of a Call.
ArgMoves(regs) ==
    [k \in 1..Len(regs) |->
        LET i == k - 1 IN
        IF i < 8
        THEN [op |-> "Mv", rd |-> Hardware(ArgRegs[i + 1]), rs1 |-> regs[k]]
        ELSE [op |-> "Sw", offset |-> (i - 8) * 8, base |-> Hardware("SP"),
              rs1 |-> regs[k]]]

\* The names an instruction hands to allocate_reg, in the order of the calls.
AllocatedNames(instr) ==
    CASE instr.op = "Const" -> <<instr.dest>>
      [] instr.op = "Assign" -> <<instr.lhs, instr.rhs>>
      [] instr.op \in ArithmeticOps -> <<instr.dest, instr.lhs, instr.rhs>>
      [] instr.op = "Call" -> instr.args \o instr.opt_dest
      [] instr.op = "Br" -> <<instr.cond>>
      [] OTHER -> <<>>

\* `*i as i64` for a Bool, `*i` for an Int.
Imm(value) ==
    IF value[1] = "Int" THEN value[2] ELSE IF value[2] THEN I64(1) ELSE I64(0)

\* The machine instructions pushed for an IR instruction, given the
\* registers allocate_reg returned for AllocatedNames.
Lowered(instr, regs) ==
    CASE instr.op = "Const" -> <<[op |-> "Li", rd |-> regs[1], imm |-> Imm(instr.value)]>>
      [] instr.op = "Assign" -> <<[op |-> "Mv", rd |-> regs[1], rs1 |-> regs[2]]>>
      [] instr.op \in ArithmeticOps ->
             <<[op |-> instr.op, rd |-> regs[1], rs1 |-> regs[2], rs2 |-> regs[3]]>>
      [] instr.op = "Call" ->
             ArgMoves(SubSeq(regs, 1, Len(instr.args)))
             \o <<[op |-> "Jal", rd |-> Hardware("RA"), label |-> instr.target_func]>>
             \o (IF instr.opt_dest # <<>>
                 THEN <<[op |-> "Mv", rd |-> regs[Len(regs)], rs1 |-> Hardware("A0")]>>
                 ELSE <<>>)
      [] instr.op = "Br" ->
             <<[op |-> "Beqz", rs1 |-> regs[1], label |-> instr.else_lbl],
               [op |-> "Jmp", label |-> instr.then_lbl]>>
      [] instr.op = "Jmp" -> <<[op |-> "Jmp", label |-> instr.label]>>
      [] instr.op = "Ret" -> <<[op |-> "Ret", opt_rd |-> <<>>]>>
      [] OTHER -> <<>>

\* `if args.is_empty() { rd = Some(allocate_reg(&args[0])); }`: the index
\* is out of bounds.
SelectPanics(instr) == instr.op = "Ret" /\ instr.args = <<>>

\* One iteration of `for instr in block.instrs.iter()`.
SelectInstr ==
    /\ pc = "select"
    /\ sel_block < N
    /\ sel_instr <= Len(blocks[sel_block].instrs)
    /\ LET instr == blocks[sel_block].instrs[sel_instr]
           alloc == allocate_reg(vreg_mapping, next_vreg, AllocatedNames(instr))
       IN  IF SelectPanics(instr)
           THEN /\ pc' = "panic"
                /\ UNCHANGED <<machine_block, vreg_mapping, next_vreg, sel_instr,
                               sel_log>>
           ELSE /\ machine_block' = machine_block \o Lowered(instr, alloc.regs)
                /\ sel_log' = Append(sel_log, [instr |-> instr,
                                               pushed |-> Lowered(instr, alloc.regs)])
                /\ vreg_mapping' = alloc.mapping
                /\ next_vreg' = alloc.next
                /\ sel_instr' = sel_instr + 1
                /\ UNCHANGED pc
    /\ UNCHANGED <<blocks, outsideSel, raVars, machine_func, sel_block, instr_pos,
                   output>>

\* machine_func.blocks.push(machine_block.clone()), and the next block.
SelectNextBlock ==
    /\ pc = "select"
    /\ sel_block < N
    /\ sel_instr > Len(blocks[sel_block].instrs)
    /\ machine_func' = Append(machine_func,
                              [name |-> Label(sel_block), instrs |-> machine_block,
                               succs |-> blocks[sel_block].succs])
    /\ machine_block' = <<>>
    /\ sel_block' = sel_block + 1
    /\ sel_instr' = 1
    /\ UNCHANGED <<pc, blocks, outsideSel, raVars, vreg_mapping, next_vreg, sel_log,
                   instr_pos, output>>

\* select_instructions returns machine_func.
SelectReturn ==
    /\ pc = "select"
    /\ sel_block = N
    /\ pc' = "selected"
    /\ UNCHANGED <<blocks, outsideSel, raVars, selVars, output>>

(***************************************************************************)
(* Emission: emit_riscv on the machine function, which first runs the      *)
(* allocator (LinearScan::run: build_intervals, then linear_scan as above) *)
(* and then prints.  A printed line is a record of its mnemonic and its    *)
(* operands as printed.                                                    *)
(***************************************************************************)
\* MachineInstr::defs
MachineDefs(instr) ==
    IF instr.op \in {"Add", "Addi", "Mul", "Sub", "Div", "Mv", "Li"}
    THEN <<instr.rd>> ELSE <<>>

\* MachineInstr::uses
MachineUses(instr) ==
    IF instr.op \in {"Add", "Mul", "Sub", "Beq", "Div"} THEN <<instr.rs1, instr.rs2>>
    ELSE IF instr.op \in {"Addi", "Sw", "Beqz", "Mv"} THEN <<instr.rs1>>
    ELSE <<>>

\* intervals.entry(reg).or_insert(Interval {start: pos, end: pos, ..}) and
\* the update of start (for a def) or of end (for a use), for each
\* register in turn.
RECURSIVE Touch(_, _, _, _)
Touch(ivs, regs, pos, is_def) ==
    IF regs = <<>> THEN ivs
    ELSE LET reg == Head(regs)
             entry == IF reg \in DOMAIN ivs THEN ivs[reg] ELSE Interval(pos, pos)
             updated == IF is_def
                        THEN [entry EXCEPT !.start = Min({entry.start, pos})]
                        ELSE [entry EXCEPT !.end = Max({entry.end, pos})]
         IN  Touch((reg :> updated) @@ ivs, Tail(regs), pos, is_def)

\* The instructions of the blocks of a machine function, one after the other.
RECURSIVE AllInstrs(_)
AllInstrs(mblocks) ==
    IF mblocks = <<>> THEN <<>> ELSE Head(mblocks).instrs \o AllInstrs(Tail(mblocks))

\* LinearScan::run on the machine function calls build_intervals, whose
\* second loop visits the instructions in the order of instrs_global_pos.
BuildStart ==
    /\ pc = "selected"
    /\ intervals' = <<>>
    /\ instr_pos' = 0
    /\ pc' = "build_intervals"
    /\ UNCHANGED <<blocks, outsideSel, machine_func, machine_block, vreg_mapping,
                   next_vreg, sel_block, sel_instr, sel_log, output, live_intervals,
                   active_alloc_intervals, free_regs, curr_idx, returned>>

\* The body of the loop for one instruction: its defs, then its uses.
BuildStep ==
    /\ pc = "build_intervals"
    /\ instr_pos < Len(AllInstrs(machine_func))
    /\ LET instr == AllInstrs(machine_func)[instr_pos + 1] IN
       intervals' = Touch(Touch(intervals, MachineDefs(instr), instr_pos, TRUE),
                          MachineUses(instr), instr_pos, FALSE)
    /\ instr_pos' = instr_pos + 1
    /\ UNCHANGED <<pc, blocks, outsideSel, machine_func, machine_block, vreg_mapping,
                   next_vreg, sel_block, sel_instr, sel_log, output, live_intervals,
                   active_alloc_intervals, free_regs, curr_idx, returned>>

\* build_intervals returns; run goes on with linear_scan.
BuildReturn ==
    /\ pc = "build_intervals"
    /\ instr_pos = Len(AllInstrs(machine_func))
    /\ pc' = "scan_start"
    /\ UNCHANGED <<blocks, outsideSel, raVars, selVars, output>>

\* IrFunction.name
FuncName == <<"m", "a", "i", "n">>

\* The registers to_phys returns as they are.
FixedRegs == {"A0", "A1", "A2", "A3", "A4", "A5", "A6", "A7", "RA", "SP", "FP", "GP"}

to_phys(v, map) ==
    IF v[1] \in FixedRegs THEN v
    ELSE IF v \in DOMAIN map /\ map[v].phy_reg # <<>> THEN Hardware(map[v].phy_reg[1])
    ELSE v

\* VReg::name
RegNames ==
    [T0 |-> "t0", T1 |-> "t1", T2 |-> "t2", T3 |-> "t3", T4 |-> "t4", T5 |-> "t5",
     T6 |-> "t6", A0 |-> "a0", A1 |-> "a1", A2 |-> "a2", A3 |-> "a3", A4 |-> "a4",
     A5 |-> "a5", A6 |-> "a6", A7 |-> "a7", S0 |-> "s0", S1 |-> "s1", S2 |-> "s2",
     S3 |-> "s3", S4 |-> "s4", S5 |-> "s5", S6 |-> "s6", S7 |-> "s7", S8 |-> "s8",
     S9 |-> "s9", S10 |-> "s10", S11 |-> "s11", SP |-> "sp", RA |-> "ra",
     GP |-> "gp", FP |-> "fp", Virtual |-> "rt"]

\* to_phys(v, live_intervals).name()
PhysName(v, map) == RegNames[to_phys(v, map)[1]]

\* The line printed for a machine instruction; none for Addi, Beq, Call
\* produced by nobody, and Print.
EmitInstr(instr, map) ==
    CASE instr.op = "Li" ->
             <<[asm |-> "li", rd |-> PhysName(instr.rd, map), imm |-> IntToString(instr.imm)]>>
      [] instr.op \in ArithmeticOps ->
             <<[asm |-> CASE instr.op = "Add" -> "add" [] instr.op = "Mul" -> "mul"
                          [] instr.op = "Sub" -> "sub" [] instr.op = "Div" -> "div",
                rd |-> PhysName(instr.rd, map), rs1 |-> PhysName(instr.rs1, map),
                rs2 |-> PhysName(instr.rs2, map)]>>
      [] instr.op = "Mv" ->
             <<[asm |-> "mv", rd |-> PhysName(instr.rd, map),
                rs1 |-> PhysName(instr.rs1, map)]>>
      [] instr.op = "Sw" ->
             <<[asm |-> "sw", rs1 |-> PhysName(instr.rs1, map),
                offset |-> Decimal(instr.offset), base |-> PhysName(instr.base, map)]>>
      [] instr.op = "Call" -> <<[asm |-> "call", label |-> instr.func]>>
      [] instr.op = "Jmp" -> <<[asm |-> "j", label |-> instr.label]>>
      [] instr.op = "Jal" ->
             <<[asm |-> "jal", rd |-> PhysName(instr.rd, map), label |-> instr.label]>>
      [] instr.op = "Beqz" ->
             <<[asm |-> "beqz", rs1 |-> PhysName(instr.rs1, map), label |-> instr.label]>>
      [] instr.op = "Ret" ->
             IF instr.opt_rd # <<>>
             THEN <<[asm |-> "ret", rd |-> PhysName(instr.opt_rd[1], map)]>>
             ELSE <<[asm |-> "ret"]>>
      [] OTHER -> <<>>

\* The lines of the instructions of a block, in order.
EmitInstrs(instrs, map) ==
    LET printed == SelectSeq([i \in 1..Len(instrs) |-> EmitInstr(instrs[i], map)],
                             LAMBDA lines : lines # <<>>)
    IN  [i \in 1..Len(printed) |-> printed[i][1]]

\* The lines of the blocks: the label of the block, then its instructions.
RECURSIVE EmitBlocks(_, _)
EmitBlocks(mblocks, map) ==
    IF mblocks = <<>> THEN <<>>
    ELSE <<[asm |-> ".label", label |-> Head(mblocks).name]>>
         \o EmitInstrs(Head(mblocks).instrs, map)
         \o EmitBlocks(Tail(mblocks), map)

\* stack_frame: 8 for every interval marked spilled.
StackFrame(map) == 8 * Cardinality({v \in DOMAIN map : map[v].mark_spilled})

\* stack_frame - k as a usize prints: below zero the subtraction wraps
\* modulo 2^64 (a build with overflow checks panics instead).
FrameOffset(frame, k) ==
    IF frame >= k THEN Decimal(frame - k)
    ELSE IntToString(Signed(FALSE, MagSub(TwoTo64, MagOf(k - frame))))

EmitHeader ==
    <<[asm |-> ".section .text"], [asm |-> ".p2align 2"],
      [asm |-> ".globl", label |-> FuncName], [asm |-> "label", label |-> FuncName]>>

\* The prologue up to and including the save of ra.
EmitPrologueRa(frame) ==
    IF frame > 0
    THEN <<[asm |-> "addi", rd |-> "sp", rs1 |-> "sp", imm |-> <<"-">> \o Decimal(frame)],
           [asm |-> "sd", rs1 |-> "ra", offset |-> FrameOffset(frame, 8), base |-> "sp"]>>
    ELSE <<>>

\* The rest of the prologue.
EmitPrologueS0(frame) ==
    IF frame > 0
    THEN <<[asm |-> "sd", rs1 |-> "s0", offset |-> FrameOffset(frame, 16), base |-> "sp"],
           [asm |-> "mv", rd |-> "s0", rs1 |-> "sp"]>>
    ELSE <<>>

EmitEpilogue(frame) ==
    IF frame > 0
    THEN <<[asm |-> "ld", rd |-> "s0", offset |-> FrameOffset(frame, 16), base |-> "sp"],
           [asm |-> "ld", rd |-> "ra", offset |-> FrameOffset(frame, 8), base |-> "sp"],
           [asm |-> "addi", rd |-> "sp", rs1 |-> "sp", imm |-> Decimal(frame)]>>
    ELSE <<>>

\* emit_riscv after allocator.run: the lines of the module of one function.
Emit ==
    /\ pc = "scan_done"
    /\ LET frame == StackFrame(returned) IN
       IF 0 < frame /\ frame < 16 /\ overflow_checks
       THEN /\ pc' = "panic"
            /\ output' = EmitHeader \o EmitPrologueRa(frame)
       ELSE /\ pc' = "emitted"
            /\ output' = EmitHeader \o EmitPrologueRa(frame) \o EmitPrologueS0(frame)
                         \o EmitBlocks(machine_func, returned) \o EmitEpilogue(frame)
    /\ UNCHANGED <<blocks, outsideSel, raVars, selVars>>

F == <<"f">>

\* Ten arguments, names repeated.
TenArgs == <<X, Y, A, R, D, X, Y, A, R, D>>

\* Instructions of every arm of the match, a comparison, a logical
\* operation and a Print for the arm `_ => {}`, Calls with no, few, eight
\* and more than eight arguments, with and without dest, and Rets with and
\* without arguments.
SelInstrs ==
    { Const(X, Int_(I64(5))), Const(Y, Bool_(TRUE)), Assign(X, Y),
      BinaryInstr("Sub", R, X, Y), Lt(R, X, Y), Not(R, X), PrintInstr(<<X>>),
      Call(F, <<>>, <<>>), Call(F, <<X, X>>, <<X>>), Call(F, SubSeq(TenArgs, 1, 8), <<R>>),
      Call(F, SubSeq(TenArgs, 1, 9), <<A>>), Call(F, TenArgs, <<>>),
      Br(X, Label(1), Label(0)), Jmp(Label(1)), Ret(<<>>), Ret(<<X>>) }

MaxSelInstrs == 2

SelBodies == UNION { [1..k -> SelInstrs] : k \in 0..MaxSelInstrs }

\* Functions of one block, and of two blocks with at most one instruction
\* in the second.
SelInputs ==
    { ChainFunction(<<first>>) : first \in SelBodies } \cup
    { ChainFunction(<<first, second>>) :
        first \in SelBodies, second \in {body \in SelBodies : Len(body) <= 1} }

InitSel ==
    /\ blocks \in SelInputs
    /\ func_in = blocks
    /\ pc = "select"
    /\ b = 0
    /\ changed = FALSE
    /\ SsaIdle
    /\ live_out = <<>>
    /\ live_in = <<>>
    /\ block_uses = <<>>
    /\ block_defs = <<>>
    /\ kept = <<>>
    /\ RaIdle
    /\ CfgIdle
    /\ PmIdle
    /\ LexIdle
    /\ OptIdle
    /\ machine_func = <<>>
    /\ machine_block = <<>>
    /\ vreg_mapping = <<>>
    /\ next_vreg = 0
    /\ sel_block = 0
    /\ sel_instr = 1
    /\ sel_log = <<>>
    /\ instr_pos = 0
    /\ output = <<>>

NextSel ==
    \/ SelectInstr
    \/ SelectNextBlock
    \/ SelectReturn
    \/ BuildStart
    \/ BuildStep
    \/ BuildReturn
    \/ ScanStart
    \/ ScanStep
    \/ ScanReturn
    \/ Emit

SpecSel == InitSel /\ [][NextSel]_vars

(***************************************************************************)
(* Specification of selection, allocation and emission on functions that   *)
(* fill the register pool: MaxNames or fewer names defined one after the   *)
(* other, all live until a chain of additions reads them in the order of   *)
(* their definition, with or without a Call in between.  The build, with   *)
(* or without overflow checks, is chosen with the input.                   *)
(***************************************************************************)
MaxNames == 29

\* The i-th name.
Name(i) == <<"n">> \o Decimal(i)

\* Const n1 .. Const nk; an optional Call f(n1) with dest n1;
\* Add n2 n1 n2; Add n3 n2 n3; ..; Ret [nk].
PressureBody(k, with_call) ==
    [i \in 1..k |-> Const(Name(i), Int_(I64(5)))]
    \o (IF with_call THEN <<Call(F, <<Name(1)>>, <<Name(1)>>)>> ELSE <<>>)
    \o [j \in 1..(k - 1) |-> Add(Name(j + 1), Name(j), Name(j + 1))]
    \o <<Ret(<<Name(k)>>)>>

PressureInputs ==
    { ChainFunction(<<PressureBody(k, with_call)>>) :
        k \in 1..MaxNames, with_call \in BOOLEAN }

InitEmit ==
    /\ blocks \in PressureInputs
    /\ func_in = blocks
    /\ pc = "select"
    /\ b = 0
    /\ changed = FALSE
    /\ SsaIdle
    /\ live_out = <<>>
    /\ live_in = <<>>
    /\ block_uses = <<>>
    /\ block_defs = <<>>
    /\ kept = <<>>
    /\ RaIdle
    /\ CfgIdle
    /\ PmIdle
    /\ LexIdle
    /\ overflow_checks \in BOOLEAN
    /\ opt_block = 0
    /\ opt_instr = 0
    /\ const_env = <<>>
    /\ machine_func = <<>>
    /\ machine_block = <<>>
    /\ vreg_mapping = <<>>
    /\ next_vreg = 0
    /\ sel_block = 0
    /\ sel_instr = 1
    /\ sel_log = <<>>
    /\ instr_pos = 0
    /\ output = <<>>

NextEmit ==
    \/ SelectInstr
    \/ SelectNextBlock
    \/ SelectReturn
    \/ BuildStart
    \/ BuildStep
    \/ BuildReturn
    \/ ScanStart
    \/ ScanStep
    \/ ScanReturn
    \/ Emit

SpecEmit == InitEmit /\ [][NextEmit]_vars

(***************************************************************************)
(* The lexer: Lexer::scan_all and Lexer::next_token, one loop iteration a  *)
(* step.  input is a sequence of bytes, one element a byte: an ASCII       *)
(* character is its own byte, a two-byte character is its name followed by *)
(* ContinuationByte.  pos is a byte offset, as in the source, and          *)
(* advance adds one to it whatever the character.  line, col and span of   *)
(* the Lexer are left out: they are written and never read by these        *)
(* functions, except in the text of a logged error.  A token is its        *)
(* token_type, without the payload of Integer and Identifier, and its span.*)
(***************************************************************************)
MaxInputLen == 4

\* lex_tokens holds the first MaxTokens tokens that scan_all pushes; a run
\* that consumes a byte a token pushes fewer.
MaxTokens == 6

ContinuationByte == "cont"

\* U+00E9, a letter outside ASCII, and U+00A7, a symbol outside ASCII.
NonAsciiLetter == "U+00E9"

NonAsciiSymbol == "U+00A7"

MultiByteChars == {NonAsciiLetter, NonAsciiSymbol}

LexChars == {" ", "\n", "#", "a", "1", "<", ">", "="} \cup MultiByteChars

\* The UTF-8 encoding of a character of LexChars.
Utf8(ch) == IF ch \in MultiByteChars THEN <<ch, ContinuationByte>> ELSE <<ch>>

LexInputs ==
    LET texts == UNION {[1..n -> LexChars] : n \in 0..MaxInputLen}
        bytes(t) == Flatten([i \in 1..Len(t) |-> Utf8(t[i])])
    IN  {bytes(t) : t \in {u \in texts : Len(bytes(u)) <= MaxInputLen}}

\* char::is_whitespace, is_numeric, is_ascii_digit, is_alphabetic and
\* is_ascii_alphabetic, on the characters of LexChars.
is_whitespace(ch) == ch \in {" ", "\n"}

is_numeric(ch) == ch = "1"

is_ascii_digit(ch) == ch = "1"

is_alphabetic(ch) == ch \in {"a", NonAsciiLetter}

is_ascii_alphabetic(ch) == ch = "a"

\* The slice self.input[p..] panics when p is beyond the end or inside a
\* character.
SlicePanics(p) ==
    \/ p > Len(lex_input)
    \/ p < Len(lex_input) /\ lex_input[p + 1] = ContinuationByte

\* Lexer::peek with pos = p, where the slice does not panic.
peek(p) == IF p >= Len(lex_input) THEN <<>> ELSE <<lex_input[p + 1]>>

\* Lexer::advance: the new pos.
advance(p) == p + 1

\* Lexer::is_end
is_end(p) == p >= Len(lex_input)

\* The inner loop of skip_comments from pos = p: Some(pos) when it ends,
\* None when a peek panics.
RECURSIVE CommentLine(_)
CommentLine(p) ==
    IF SlicePanics(p) THEN <<>>
    ELSE IF peek(p) = <<>> THEN <<p>>
    ELSE IF peek(p) = <<"\n">> THEN <<advance(p)>>
    ELSE CommentLine(advance(p))

\* The loops of handle_number and handle_identifier from pos = p: pos
\* after the characters of the set keep.  The characters they advance
\* over are ASCII, so no peek of theirs panics.
RECURSIVE ConsumeWhile(_, _)
ConsumeWhile(p, keep) ==
    IF peek(p) # <<>> /\ peek(p)[1] \in keep THEN ConsumeWhile(advance(p), keep) ELSE p

\* str::parse::<i64> of a run of ASCII digits: the empty string does not
\* parse, a run of at most 18 digits does; longer runs are beyond
\* MaxInputLen.
ParsesAsI64(text) == Len(text) \in 1..18

\* handle_number from pos = p
handle_number(p) ==
    LET end == ConsumeWhile(p, {ch \in LexChars : is_ascii_digit(ch)})
        number == SubSeq(lex_input, p + 1, end)
    IN  [token_type |-> IF ParsesAsI64(number) THEN "Integer" ELSE "Undefined",
         pos |-> end]

\* handle_identifier: let keyword
keyword ==
    {[id |-> <<"d", "e", "f">>, token_type |-> "Def"],
     [id |-> <<"i", "f">>, token_type |-> "If"],
     [id |-> <<"e", "l", "s", "e", "i", "f">>, token_type |-> "ElseIf"],
     [id |-> <<"e", "l", "s", "e">>, token_type |-> "Else"],
     [id |-> <<"l", "e", "t">>, token_type |-> "Let"],
     [id |-> <<"r", "e", "t", "u", "r", "n">>, token_type |-> "Return"],
     [id |-> <<"t", "y", "p", "e">>, token_type |-> "TypeRecord"],
     [id |-> <<"n", "o", "t">>, token_type |-> "Not"],
     [id |-> <<"w", "i", "t", "h">>, token_type |-> "With"],
     [id |-> <<"m", "a", "t", "c", "h">>, token_type |-> "Match"],
     [id |-> <<"f", "r", "o", "m">>, token_type |-> "From"]}

is_identifier_char(ch) == is_ascii_alphabetic(ch) \/ ch = "_"

\* handle_identifier from pos = p
handle_identifier(p) ==
    LET end == ConsumeWhile(p, {ch \in LexChars : is_identifier_char(ch)})
        id == SubSeq(lex_input, p + 1, end)
    IN  [token_type |-> IF \E k \in keyword : k.id = id
                        THEN (CHOOSE k \in keyword : k.id = id).token_type
                        ELSE "Identifier",
         pos |-> end]

\* Lexer::accept with pos = p: whether strs is accepted
accept(p, strs) ==
    /\ p + Len(strs) <= Len(lex_input)
    /\ SubSeq(lex_input, p + 1, p + Len(strs)) = strs

\* The calls of accept_multichar in next_token, in their order.
MultiChars ==
    <<[strs |-> <<"<", ">">>, token_type |-> "Neq"],
      [strs |-> <<"-", ">">>, token_type |-> "Arrow"],
      [strs |-> <<"&", "&">>, token_type |-> "AndAnd"],
      [strs |-> <<"=", "=">>, token_type |-> "EqEq"],
      [strs |-> <<">", "=">>, token_type |-> "EqEq"],
      [strs |-> <<"<", "=">>, token_type |-> "EqEq"]>>

\* next_token: the match on the single character
SingleChar(ch) ==
    CASE ch = "+" -> "Plus"
      [] ch = "-" -> "Minus"
      [] ch = "*" -> "Star"
      [] ch = "/" -> "Divide"
      [] ch = "%" -> "Modulo"
      [] ch = "^" -> "Exp"
      [] ch = "!" -> "Excl"
      [] ch = "=" -> "Eq"
      [] ch = "<" -> "Lt"
      [] ch = ">" -> "Gt"
      [] ch = "&" -> "And"
      [] ch = "|" -> "Arm"
      [] ch = "(" -> "LParam"
      [] ch = ")" -> "RParam"
      [] ch = "[" -> "LBracket"
      [] ch = "]" -> "RBracket"
      [] ch = "," -> "Comma"
      [] ch = ":" -> "Colon"
      [] OTHER -> "Undefined"

\* next_token from `let base = self.pos` on, with pos = base = p: the
\* token it returns and pos when it returns.
next_token(p) ==
    IF is_end(p) THEN [token_type |-> "Eof", span |-> <<p, p>>, pos |-> p]
    ELSE
        LET ch == peek(p)[1]
            accepted == {i \in 1..Len(MultiChars) : accept(p, MultiChars[i].strs)}
        IN  IF is_numeric(ch)
            THEN LET number == handle_number(p)
                 IN  [token_type |-> number.token_type, span |-> <<p, number.pos>>,
                      pos |-> number.pos]
            ELSE IF is_alphabetic(ch) \/ ch = "_"
            THEN LET id == handle_identifier(p)
                 IN  [token_type |-> id.token_type, span |-> <<p, id.pos>>,
                      pos |-> id.pos]
            ELSE IF accepted # {}
            THEN LET m == MultiChars[Min(accepted)]
                     after == p + Len(m.strs)
                 IN  [token_type |-> m.token_type,
                      span |-> <<after, after + Len(m.strs)>>, pos |-> after]
            ELSE [token_type |-> SingleChar(ch), span |-> <<p, advance(p)>>,
                  pos |-> advance(p)]

\* scan_all: the loop condition holds and next_token is called.
ScanAllCall ==
    /\ pc = "scan_all"
    /\ lex_pos < Len(lex_input)
    /\ lex_entry' = lex_pos
    /\ pc' = "skip_whitespace_and_comments"
    /\ UNCHANGED <<lex_input, lex_pos, lex_base, lex_tokens, outsideLex>>

\* scan_all: the loop condition fails and the tokens are returned.
ScanAllReturn ==
    /\ pc = "scan_all"
    /\ ~(lex_pos < Len(lex_input))
    /\ pc' = "scanned"
    /\ UNCHANGED <<lexVars, outsideLex>>

\* The peek of skip_whitespace_and_comments panics.
PeekPanics ==
    /\ pc = "skip_whitespace_and_comments"
    /\ SlicePanics(lex_pos)
    /\ pc' = "lexer_panic"
    /\ UNCHANGED <<lexVars, outsideLex>>

\* skip_whitespace_and_comments: the arm of a whitespace character
SkipWhitespace ==
    /\ pc = "skip_whitespace_and_comments"
    /\ ~SlicePanics(lex_pos)
    /\ peek(lex_pos) # <<>>
    /\ is_whitespace(peek(lex_pos)[1])
    /\ lex_pos' = advance(lex_pos)
    /\ UNCHANGED <<pc, lex_input, lex_entry, lex_base, lex_tokens, outsideLex>>

\* skip_whitespace_and_comments: the arm of '#', which calls skip_comments
SkipComment ==
    /\ pc = "skip_whitespace_and_comments"
    /\ ~SlicePanics(lex_pos)
    /\ peek(lex_pos) = <<"#">>
    /\ pc' = "skip_comments"
    /\ UNCHANGED <<lexVars, outsideLex>>

\* skip_whitespace_and_comments: the arm `_ => break`, then next_token's
\* `let base = self.pos`
SkipBreak ==
    /\ pc = "skip_whitespace_and_comments"
    /\ ~SlicePanics(lex_pos)
    /\ peek(lex_pos) # <<"#">>
    /\ peek(lex_pos) # <<>> => ~is_whitespace(peek(lex_pos)[1])
    /\ lex_base' = lex_pos
    /\ pc' = "next_token"
    /\ UNCHANGED <<lex_input, lex_pos, lex_entry, lex_tokens, outsideLex>>

\* skip_comments: one test of `while self.peek() == Some('\n')`, and the
\* body when it holds.
SkipCommentsStep ==
    /\ pc = "skip_comments"
    /\ IF peek(lex_pos) = <<"\n">>
       THEN LET end == CommentLine(advance(lex_pos))
            IN  IF end = <<>>
                THEN pc' = "lexer_panic" /\ UNCHANGED lex_pos
                ELSE lex_pos' = end[1] /\ UNCHANGED pc
       ELSE pc' = "skip_whitespace_and_comments" /\ UNCHANGED lex_pos
    /\ UNCHANGED <<lex_input, lex_entry, lex_base, lex_tokens, outsideLex>>

\* next_token returns its token; scan_all pushes it and leaves the loop
\* when it is Eof.
NextTokenReturn ==
    /\ pc = "next_token"
    /\ LET tok == next_token(lex_pos)
       IN  /\ lex_pos' = tok.pos
           /\ lex_tokens' =
                  IF Len(lex_tokens) < MaxTokens
                  THEN Append(lex_tokens,
                              [token_type |-> tok.token_type, span |-> tok.span])
                  ELSE lex_tokens
           /\ pc' = IF tok.token_type = "Eof" THEN "scanned" ELSE "scan_all"
    /\ UNCHANGED <<lex_input, lex_entry, lex_base, outsideLex>>

\* Lexer::new(source) for a source of LexInputs, and scan_all called.
InitLex ==
    /\ pc = "scan_all"
    /\ CoreIdle
    /\ PmIdle
    /\ OptIdle
    /\ SelIdle
    /\ lex_input \in LexInputs
    /\ lex_pos = 0
    /\ lex_entry = 0
    /\ lex_base = 0
    /\ lex_tokens = <<>>

NextLex ==
    \/ ScanAllCall
    \/ ScanAllReturn
    \/ PeekPanics
    \/ SkipWhitespace
    \/ SkipComment
    \/ SkipBreak
    \/ SkipCommentsStep
    \/ NextTokenReturn

SpecLex == InitLex /\ [][NextLex]_vars

\* The lexer is one sequential computation: while it has a next step it
\* takes it.
SpecLexFair == SpecLex /\ WF_vars(NextLex)

(***************************************************************************)
(* Dominance, as the glossary defines it: a dominates x iff every path     *)
(* from the entry to x goes through a.                                     *)
(***************************************************************************)
\* The blocks reachable from the entry along paths that avoid block a.
RECURSIVE ReachAvoiding(_, _)
ReachAvoiding(a, seen) ==
    LET nxt == seen \cup ((UNION {Range(Succs(x)) : x \in seen}) \ {a})
    IN  IF nxt = seen THEN seen ELSE ReachAvoiding(a, nxt)

Dominates(a, x) ==
    \/ a = x
    \/ x \notin ReachAvoiding(a, IF a = 0 THEN {} ELSE {0})

StrictlyDominates(a, x) == a # x /\ Dominates(a, x)

\* The closest strict dominator of a block other than the entry.
ImmediateDominator(x) ==
    CHOOSE d \in BlockIds :
        /\ StrictlyDominates(d, x)
        /\ \A e \in BlockIds : StrictlyDominates(e, x) => Dominates(e, d)

\* m is in the dominance frontier of x.
InFrontier(x, m) ==
    /\ \E p \in Range(Preds(m)) : Dominates(x, p)
    /\ ~StrictlyDominates(x, m)

\* The block indices 0..n-1 are a reverse post-order of a depth-first search
\* from the entry: there is a spanning tree of CFG edges (par) whose preorder
\* is the index order, such that every edge leads into the subtree of its
\* source (tree and forward edges), to an ancestor (back edges), or to a
\* block the search had finished earlier (cross edges, to a larger index).
IsRPO ==
    \E par \in [1..(N - 1) -> 0..(N - 1)] :
        /\ \A v \in 1..(N - 1) : par[v] < v /\ Contains(Succs(par[v]), v)
        /\ LET Anc[v \in 0..(N - 1)] ==
                    IF v = 0 THEN {} ELSE Anc[par[v]] \cup {par[v]}
               Desc(v) == {w \in BlockIds : w = v \/ v \in Anc[w]}
           IN  /\ \A v \in BlockIds : Desc(v) = v..(v + Cardinality(Desc(v)) - 1)
               /\ \A x \in BlockIds : \A y \in Range(Succs(x)) :
                      y \in Desc(x) \/ y \in Anc[x] \/ y > Max(Desc(x))

IdomPcs == {"idom_loop", "idom_for", "idom_others", "idom_fingers", "idom_collect"}

\* compute_idom has returned Ok.
IdomComputed == pc \notin IdomPcs \cup {"panic"}

\* compute_df has returned.
DfComputed == pc \notin IdomPcs \cup {"panic", "df"}

DfOf(x) == IF x \in DOMAIN dom_frontier THEN dom_frontier[x] ELSE <<>>

NoDuplicates(s) == \A i, j \in 1..Len(s) : s[i] = s[j] => i = j

HasBackEdge == \E x \in BlockIds : \E y \in Range(Succs(x)) : y <= x

(***************************************************************************)
(* C6.  On every CFG whose blocks are all reachable and whose indices are  *)
(* a reverse post-order, compute_idom returns idom[entry] = entry and for  *)
(* every other block its immediate dominator; on the six-block diamond     *)
(* the result is {0:0, 1:0, 2:1, 3:1, 4:1, 5:4}.                           *)
(***************************************************************************)
C6_IdomIsImmediateDominator ==
    (IdomComputed /\ IsRPO) =>
        /\ idom[0] = 0
        /\ \A x \in BlockIds \ {0} : idom[x] = ImmediateDominator(x)
        /\ blocks = diamond_cfg =>
               idom = [x \in 0..5 |-> <<0, 0, 1, 1, 1, 4>>[x + 1]]

\* A reverse-post-order CFG with a back edge and a join whose immediate
\* dominator is none of its predecessors has been processed.
C6_Witness ==
    /\ IdomComputed /\ IsRPO /\ HasBackEdge /\ N = NBlocks
    /\ \E x \in BlockIds \ {0} :
           Len(Preds(x)) >= 2 /\ ~Contains(Preds(x), idom[x])

(***************************************************************************)
(* C7.  On every well-formed function, in any block numbering, the         *)
(* fix-point iteration of compute_idom terminates, and its result has      *)
(* idom[entry] = entry and an idom[x] that strictly dominates x for every  *)
(* other block x.                                                          *)
(***************************************************************************)
C7_IdomTerminatesStrictDominator ==
    /\ <>IdomComputed
    /\ [](IdomComputed =>
            /\ idom[0] = 0
            /\ \A x \in BlockIds \ {0} : StrictlyDominates(idom[x], x))

\* compute_idom has returned on a CFG with a loop whose numbering is not a
\* reverse post-order, with an idom that is not the immediate dominator.
C7_Witness ==
    /\ IdomComputed /\ ~IsRPO /\ HasBackEdge
    /\ \E x \in BlockIds \ {0} : idom[x] # ImmediateDominator(x)

(***************************************************************************)
(* C8.  On every CFG whose blocks are all reachable and numbered in        *)
(* reverse post-order, after compute_idom and compute_df: m is listed in   *)
(* dom_frontier[x] iff x dominates a predecessor of m and does not         *)
(* strictly dominate m, and no list names a block twice; on the diamond    *)
(* DF(2) = [4] and DF(3) = [4].                                            *)
(***************************************************************************)
C8_DomFrontierExact ==
    (DfComputed /\ IsRPO) =>
        /\ \A x, m \in BlockIds : Contains(DfOf(x), m) <=> InFrontier(x, m)
        /\ \A x \in BlockIds : NoDuplicates(DfOf(x))
        /\ blocks = diamond_cfg => DfOf(2) = <<4>> /\ DfOf(3) = <<4>>

\* compute_df has run on a reverse-post-order CFG in which some block is in
\* its own frontier (a loop header) and some frontier holds two blocks.
C8_Witness ==
    /\ DfComputed /\ IsRPO
    /\ \E x \in BlockIds : Contains(DfOf(x), x)
    /\ \E x \in BlockIds : Len(DfOf(x)) >= 2

(***************************************************************************)
(* The function after SSA construction.                                    *)
(***************************************************************************)
\* SSAFormation::new has returned.
SsaDone == pc = "ssa_done"

\* phi_insert has returned and rename_pass has not touched a block yet.
PhiInserted == pc = "rename" /\ Len(frames) = 1 /\ ~frames[1].entered

\* The instruction positions of the function.
Positions == {<<x, i>> : x \in BlockIds, i \in 1..(NBlocks + MaxInstrs + 2)} \cap
             UNION {{<<x, i>> : i \in 1..Len(blocks[x].instrs)} : x \in BlockIds}

InstrAt(pos) == blocks[pos[1]].instrs[pos[2]]

\* The original variable of an SSA name: the characters before its '$'.
OrigVar(name) ==
    LET I == {i \in 1..Len(name) : name[i] = "$"}
    IN  IF I = {} THEN name ELSE SubSeq(name, 1, Min(I) - 1)

\* The Phi instructions of block x.
PhisOf(x) == {i \in 1..Len(blocks[x].instrs) : blocks[x].instrs[i].op = "Phi"}

(***************************************************************************)
(* C1.  After SSAFormation::new on a well-formed function, no name is      *)
(* defined by more than one instruction of the function, whatever kinds    *)
(* of defining instructions the input contains.                            *)
(***************************************************************************)
C1_EveryNameDefinedOnce ==
    SsaDone =>
        \A p, q \in Positions :
            p # q => Range(defs(InstrAt(p))) \cap Range(defs(InstrAt(q))) = {}

(***************************************************************************)
(* C2.  After SSAFormation::new, source k of every Phi of a block s is     *)
(* the name of the Phi's original variable that was on top of that         *)
(* variable's rename stack at the end of predecessor preds(s)[k], in       *)
(* whatever order the dominator-tree children are visited; in the          *)
(* six-block diamond with x assigned in blocks 2 and 3, the Phi of block   *)
(* 4 has as sources the names defined in block 2 and in block 3, and a     *)
(* dest different from both.                                               *)
(***************************************************************************)
C2_PhiSourcesAreTopOfStack ==
    SsaDone =>
        /\ \A s \in BlockIds : \A i \in PhisOf(s) : \A k \in 1..Len(Preds(s)) :
               LET phi == blocks[s].instrs[i]
               IN  phi.sources[k] =
                       <<current_name(OrigVar(phi.dest), stacks_at_end[Preds(s)[k]])>>
        /\ (N = 6 /\ PhisOf(4) # {}) =>
               LET phi == blocks[4].instrs[1]
                   in2 == blocks[2].instrs[1].lhs
                   in3 == blocks[3].instrs[1].lhs
               IN  /\ phi.sources = << <<in2>>, <<in3>> >>
                   /\ phi.dest \notin {in2, in3}

LivenessReturned == pc \in {"dce", "dce_done"}

\* eliminate_deadcode has returned.
DceDone == pc = "dce_done"

EffectOps == {"Call", "Br", "Jmp", "Ret", "Print"}

\* Some instruction of instrs reads v before any instruction of instrs writes it.
ReadBeforeWrite(instrs, v) ==
    \E j \in 1..Len(instrs) :
        /\ Contains(uses(instrs[j]), v)
        /\ \A k \in 1..(j - 1) : ~Contains(defs(instrs[k]), v)

\* The blocks at whose entry v is live.
RECURSIVE LiveAtEntry(_, _)
LiveAtEntry(v, S) ==
    LET nxt == S \cup
               {y \in BlockIds :
                   \/ ReadBeforeWrite(blocks[y].instrs, v)
                   \/ /\ ~Contains(DefsOfInstrs(blocks[y].instrs), v)
                      /\ Range(Succs(y)) \cap S # {}}
    IN  IF nxt = S THEN S ELSE LiveAtEntry(v, nxt)

\* The instructions of the resulting block x that follow the position of
\* the instruction that was at index i of the input block.
RestAfter(x, i) ==
    LET J == {j \in 1..Len(kept[x]) : kept[x][j] > i}
    IN  [k \in 1..Cardinality(J) |-> blocks[x].instrs[Len(kept[x]) - Cardinality(J) + k]]

\* v is live just after index i of the input block x, in the resulting function.
LiveAfter(x, i, v) ==
    \/ ReadBeforeWrite(RestAfter(x, i), v)
    \/ /\ ~Contains(DefsOfInstrs(RestAfter(x, i)), v)
       /\ Range(Succs(x)) \cap LiveAtEntry(v, {}) # {}

\* The indices of the instructions of input block x that the pass removed.
Removed(x) == (1..Len(func_in[x].instrs)) \ Range(kept[x])

(***************************************************************************)
(* C4.  DeadCodeRemovalPass never removes a Call, Br, Jmp, Ret or Print    *)
(* instruction, whatever the liveness of the names involved: every block   *)
(* of the result holds the same such instructions, in the same order, as   *)
(* the block of the input.                                                 *)
(***************************************************************************)
C4_EffectsNeverRemoved ==
    DceDone =>
        \A x \in BlockIds :
            SelectSeq(blocks[x].instrs, LAMBDA instr : instr.op \in EffectOps)
              = SelectSeq(func_in[x].instrs, LAMBDA instr : instr.op \in EffectOps)

(***************************************************************************)
(* C5.  For every instruction DeadCodeRemovalPass removes, the name it     *)
(* defines is not live just after it: in the resulting function no         *)
(* instruction reads that name on a path from the position of the removed  *)
(* instruction before the name is redefined.                               *)
(***************************************************************************)
C5_RemovedDefsAreDead ==
    DceDone =>
        \A x \in BlockIds : \A i \in Removed(x) :
            \A v \in Range(defs(func_in[x].instrs[i])) : ~LiveAfter(x, i, v)

(***************************************************************************)
(* C10.  compute_liveness terminates on every function, loops included,    *)
(* and the sets it returns are a fix-point of the dataflow equations:      *)
(* LiveOut[x] is the union of LiveIn[s] over the successors s of x, and    *)
(* LiveIn[x] = use[x] \cup (LiveOut[x] \ def[x]), with the use and def     *)
(* sets the solver was given.                                              *)
(***************************************************************************)
C10_LivenessFixPoint ==
    /\ <>LivenessReturned
    /\ [](LivenessReturned =>
            \A x \in BlockIds :
                /\ live_out[x] = UNION {live_in[y] : y \in Range(Succs(x))}
                /\ live_in[x] = block_uses[x] \cup (live_out[x] \ block_defs[x]))

\* compute_liveness has returned on a function with a loop in which a name
\* is live around the back edge and a name live into a block is not used
\* in it.
C10_Witness ==
    /\ LivenessReturned /\ HasBackEdge
    /\ \E x \in BlockIds : \E y \in Range(Succs(x)) :
           y <= x /\ live_in[y] # {} /\ live_out[x] # {}
    /\ \E x \in BlockIds : live_in[x] \ block_uses[x] # {}

(***************************************************************************)
(* C3.  In the map linear_scan returns, for any set of intervals, more     *)
(* simultaneously live intervals than pool registers included, no two      *)
(* VRegs assigned the same physical register have overlapping [start,end]  *)
(* intervals.                                                              *)
(***************************************************************************)
C3_SharedRegisterNoOverlap ==
    pc = "scan_done" =>
        \A u, v \in DOMAIN returned :
            (/\ u # v
             /\ returned[u].phy_reg # <<>>
             /\ returned[u].phy_reg = returned[v].phy_reg)
            => \/ returned[u].end < returned[v].start
               \/ returned[v].end < returned[u].start

(***************************************************************************)
(* The function after wire_block_edges.                                    *)
(***************************************************************************)
\* wire_block_edges has returned Ok(()).
Wired == pc = "wired"

TerminatorOps == {"Br", "Jmp", "Ret"}

\* The last instruction of the block exists and is no terminator.
FallsThrough(block) ==
    block.instrs # <<>> /\ block.instrs[Len(block.instrs)].op \notin TerminatorOps

\* The successors wire_block_edges has added to block x.
WiredSuccs(x) == SubSeq(Succs(x), Len(func_in[x].succs) + 1, Len(Succs(x)))

\* The labels the last instruction of the block names.
TargetLabels(block) ==
    IF block.instrs = <<>> THEN {}
    ELSE LET terminator == block.instrs[Len(block.instrs)]
         IN  IF terminator.op = "Br" THEN {terminator.then_lbl, terminator.else_lbl}
             ELSE IF terminator.op = "Jmp" THEN {terminator.label}
             ELSE {}

(***************************************************************************)
(* C11.  After any sequence of add_block and add_edge calls, and after     *)
(* wire_block_edges, the predecessor and successor lists mirror each       *)
(* other: b is in succs(a) iff a is in preds(b).                           *)
(***************************************************************************)
C11_EdgesMirror ==
    \A x, y \in BlockIds : Contains(Succs(x), y) <=> Contains(Preds(y), x)

\* wire_block_edges has returned on a function that had an edge from
\* add_edge, and has added an edge that add_edge had registered already.
C11_Witness ==
    /\ Wired
    /\ \E x \in BlockIds :
           /\ func_in[x].succs # <<>>
           /\ WiredSuccs(x) # <<>>
           /\ Range(WiredSuccs(x)) \cap Range(func_in[x].succs) # {}

(***************************************************************************)
(* C12.  wire_block_edges gives every block x whose last instruction is    *)
(* not a terminator the fall-through edge x -> x+1 whenever block x+1      *)
(* exists, the last block included, and adds no edge to a block without    *)
(* terminator otherwise.                                                   *)
(***************************************************************************)
C12_FallThroughEdge ==
    Wired =>
        \A x \in BlockIds :
            /\ FallsThrough(blocks[x]) =>
                   WiredSuccs(x) = IF x + 1 < N THEN <<x + 1>> ELSE <<>>
            /\ blocks[x].instrs = <<>> => WiredSuccs(x) = <<>>

(***************************************************************************)
(* C14.  Fatal input errors reach the caller as an error result and never  *)
(* abort the process: wire_block_edges returns Ok only when every label    *)
(* of a Br or Jmp names a block, compute_idom returns Ok only when the     *)
(* idom of every block is defined, and neither panics.                     *)
(***************************************************************************)
C14_FatalErrorsAreResults ==
    /\ pc # "panic"
    /\ Wired => \A x \in BlockIds : TargetLabels(blocks[x]) \subseteq DOMAIN label_to_idx
    /\ pc = "df" => \A x \in BlockIds : idom[x] # UsizeMax

(***************************************************************************)
(* The pass manager.                                                       *)
(***************************************************************************)
\* The calls of run_on_function on the function at position f, in order.
CallsOn(f) == SelectSeq(run_log, LAMBDA call : call.func = f)

\* C13: PassManager::run handles the functions one after the other in
\* module order; on each function it calls the registered passes in
\* registration order up to and including the first one that returns false,
\* no later pass runs on that function, and the next function starts again
\* with the first registered pass.
C13_PassesInOrderUntilFalse ==
    /\ \A i \in 1..Len(run_log) :
           /\ run_log[i].name = passes[run_log[i].pass]
           /\ IF i = 1
              THEN run_log[i].func = 1 /\ run_log[i].pass = 1
              ELSE \/ /\ run_log[i].func = run_log[i - 1].func
                       /\ run_log[i].pass = run_log[i - 1].pass + 1
                       /\ run_log[i - 1].result
                    \/ /\ run_log[i].func = run_log[i - 1].func + 1
                       /\ run_log[i].pass = 1
    /\ pc = "pm_done" =>
           \A f \in 1..Len(functions) :
               LET calls == CallsOn(f) IN
               \/ passes = <<>> /\ calls = <<>>
               \/ /\ calls # <<>>
                  /\ \/ ~calls[Len(calls)].result
                     \/ Len(calls) = Len(passes)

\* run has returned; on the first function the second of three passes
\* returned false, and the second function got all three.
C13_Witness ==
    /\ pc = "pm_done"
    /\ Len(passes) = 3
    /\ Len(functions) = 2
    /\ Len(CallsOn(1)) = 2
    /\ ~CallsOn(1)[2].result
    /\ Len(CallsOn(2)) = 3

(***************************************************************************)
(* Constant folding.                                                       *)
(***************************************************************************)
\* The pass has returned.
Folded == pc = "folded"

\* Both operands are decimal integer literals of i64.
LiteralOperands(instr) == parse(instr.lhs) # <<>> /\ parse(instr.rhs) # <<>>

\* lhs op rhs, for literal operands (and a divisor other than zero).
Eval(instr) ==
    LET left == parse(instr.lhs)[1]
        right == parse(instr.rhs)[1]
    IN  CASE instr.op = "Add" -> ExactAdd(left, right)
          [] instr.op = "Sub" -> ExactSub(left, right)
          [] instr.op = "Mul" -> ExactMul(left, right)
          [] instr.op = "Div" -> ExactDiv(left, right)

\* An Add, Sub, Mul or Div whose operands are literals, whose divisor is
\* not zero and whose value is an i64.
Foldable(instr) ==
    /\ instr.op \in ArithmeticOps
    /\ LiteralOperands(instr)
    /\ instr.op = "Div" => parse(instr.rhs)[1].mag # <<>>
    /\ InI64(Eval(instr))

\* C15: ConstantFoldPass replaces every Add, Sub, Mul and Div whose lhs and
\* rhs both parse as decimal integer literals (divisor non-zero for Div) by
\* Const(dest, Int(lhs op rhs)) with the same dest; every other instruction
\* and the number and order of the instructions of each block are unchanged.
C15_FoldsArithmeticOnLiterals ==
    Folded =>
        \A x \in BlockIds :
            /\ Len(blocks[x].instrs) = Len(func_in[x].instrs)
            /\ \A i \in 1..Len(func_in[x].instrs) :
                   LET instr == func_in[x].instrs[i] IN
                   blocks[x].instrs[i] =
                       IF Foldable(instr)
                       THEN Const(instr.dest, Int_(Eval(instr)))
                       ELSE instr

\* A Div whose divisor is the literal zero.
DivByLiteralZero(instr) ==
    /\ instr.op = "Div"
    /\ parse(instr.rhs) # <<>>
    /\ parse(instr.rhs)[1].mag = <<>>

\* C16: ConstantFoldPass never errors or traps, whatever the operand
\* strings are (pairs of literals whose sum or product is outside i64 and
\* a Div by the literal 0 included): run_on_function completes, and a Div
\* by the literal zero is left unchanged.
C16_FoldNeverTraps ==
    /\ pc # "panic"
    /\ Folded =>
           \A x \in BlockIds : \A i \in 1..Len(func_in[x].instrs) :
               DivByLiteralZero(func_in[x].instrs[i]) =>
                   blocks[x].instrs[i] = func_in[x].instrs[i]

(***************************************************************************)
(* Constant propagation.                                                   *)
(***************************************************************************)
\* The pass has returned.
Propagated == pc = "propagated"

\* The operands of an instruction, position by position.
OperandsOf(instr) ==
    CASE instr.op \in BinaryOps -> <<instr.lhs, instr.rhs>>
      [] instr.op = "Assign" -> <<instr.rhs>>
      [] instr.op = "Not" -> <<instr.arg>>
      [] instr.op = "Br" -> <<instr.cond>>
      [] instr.op \in {"Ret", "Call"} -> instr.args
      [] instr.op = "Print" -> instr.values
      [] OTHER -> <<>>

\* The positions before i in block x of the given function where a Const
\* binds name.
ConstsBefore(x, i, name) ==
    { j \in 1..(i - 1) :
        func_in[x].instrs[j].op = "Const" /\ func_in[x].instrs[j].dest = name }

\* C17: constant propagation is intra-block: an operand is replaced only
\* when the Const that binds its name occurs earlier in the same block; a
\* Const of one block never changes an operand in another block.
C17_PropagationIntraBlock ==
    Propagated =>
        \A x \in BlockIds : \A i \in 1..Len(func_in[x].instrs) :
            LET before == OperandsOf(func_in[x].instrs[i])
                after == OperandsOf(blocks[x].instrs[i])
            IN  \A k \in 1..Len(before) :
                    after[k] # before[k] => ConstsBefore(x, i, before[k]) # {}

\* The kind of literal the positions of an instruction take.
PositionKind(instr) ==
    CASE instr.op \in {"Add", "Sub", "Mul", "Div", "Ret", "Assign"} -> "Int"
      [] instr.op \in {"Eq", "Lt", "Gt", "Le", "Ge", "Br"} -> "Bool"
      [] OTHER -> "None"

\* The printed form of a literal.
Printed(value) ==
    IF value[1] = "Int" THEN IntToString(value[2]) ELSE BoolToString(value[2])

\* C18: within a block, after Const(d, v), every later operand equal to d
\* is replaced by the printed form of v in exactly these positions:
\* operands of Add/Sub/Mul/Div, Ret arguments and Assign rhs when v is an
\* Int; operands of Eq, Lt, Gt, Le, Ge and Br conditions when v is a Bool.
\* The Const itself and all dests stay unchanged.
C18_SubstitutionPositions ==
    Propagated =>
        \A x \in BlockIds : \A i \in 1..Len(func_in[x].instrs) :
            LET instr == func_in[x].instrs[i]
                result == blocks[x].instrs[i]
                before == OperandsOf(instr)
                after == OperandsOf(result)
            IN  /\ result.op = instr.op
                /\ defs(result) = defs(instr)
                /\ instr.op = "Const" => result = instr
                /\ \A k \in 1..Len(before) :
                       LET bound == ConstsBefore(x, i, before[k]) IN
                       bound # {} =>
                           LET value == func_in[x].instrs[Max(bound)].value IN
                           after[k] = IF PositionKind(instr) = value[1]
                                      THEN Printed(value)
                                      ELSE before[k]

\* The sequence the ABI prescribes for Call(target, args, dest) under the
\* mapping vreg of names to registers: argument i goes to a_i for i < 8 and
\* to (i - 8) * 8 from sp for i >= 8, then Jal ra, target, then the
\* move of a0 to the register of dest when there is a dest.
CallSequence(instr, vreg) ==
    [k \in 1..Len(instr.args) |->
        IF k <= 8
        THEN [op |-> "Mv", rd |-> Hardware(ArgRegs[k]), rs1 |-> vreg[instr.args[k]]]
        ELSE [op |-> "Sw", offset |-> (k - 9) * 8, base |-> Hardware("SP"),
              rs1 |-> vreg[instr.args[k]]]]
    \o <<[op |-> "Jal", rd |-> Hardware("RA"), label |-> instr.target_func]>>
    \o (IF instr.opt_dest = <<>> THEN <<>>
        ELSE <<[op |-> "Mv", rd |-> vreg[instr.opt_dest[1]], rs1 |-> Hardware("A0")]>>)

\* The names handed to allocate_reg by the instructions selected so far.
NamesSelected ==
    UNION { Range(AllocatedNames(sel_log[k].instr)) : k \in DOMAIN sel_log }

\* C19: select_instructions lowers every Call(target, args, dest) to exactly
\* Mv a_i, vreg(args[i]) for i < 8 and Sw vreg(args[i]), (i-8)*8(sp) for
\* i >= 8, in increasing i, then Jal ra, target, then Mv vreg(dest), a0 if
\* and only if dest is present; vreg is one mapping for the whole function
\* (a name keeps its register: what was pushed earlier agrees with the
\* mapping of now), every name has a Virtual register, and distinct names
\* have distinct registers.
C19_CallLowering ==
    /\ \A k \in DOMAIN sel_log :
           sel_log[k].instr.op = "Call" =>
               sel_log[k].pushed = CallSequence(sel_log[k].instr, vreg_mapping)
    /\ DOMAIN vreg_mapping = NamesSelected
    /\ \A name \in DOMAIN vreg_mapping :
           \E k \in 0..(next_vreg - 1) : vreg_mapping[name] = Virtual(k)
    /\ \A n1, n2 \in DOMAIN vreg_mapping :
           vreg_mapping[n1] = vreg_mapping[n2] => n1 = n2

\* Selection has returned after two Calls, one of them with nine arguments
\* (so one on the stack) and a dest, the other without a dest, with names
\* shared between them.
C19_Witness ==
    /\ pc = "selected"
    /\ Len(sel_log) = 2
    /\ sel_log[1].instr = Call(F, TenArgs, <<>>)
    /\ sel_log[2].instr = Call(F, SubSeq(TenArgs, 1, 9), <<A>>)
    /\ Len(sel_log[1].pushed) = 11
    /\ Len(sel_log[2].pushed) = 11
    /\ Cardinality(DOMAIN vreg_mapping) = 5

\* The function `Const x,5; Ret [x]` of one block.
RetExample == ChainFunction(<<<<Const(X, Int_(I64(5))), Ret(<<X>>)>>>>)

\* The names of the hardware registers.
HardwareNames == { RegNames[field] : field \in DOMAIN RegNames \ {"Virtual"} }

\* Every Ret selected so far pushed exactly one machine Ret.
RetPushesOneRet ==
    \A k \in DOMAIN sel_log :
        sel_log[k].instr.op = "Ret" =>
            Len(sel_log[k].pushed) = 1 /\ sel_log[k].pushed[1].op = "Ret"

\* select_instructions has stopped with a panic at a Ret.
PanicsAtRet ==
    /\ pc = "panic"
    /\ sel_block < N
    /\ sel_instr <= Len(blocks[sel_block].instrs)
    /\ blocks[sel_block].instrs[sel_instr].op = "Ret"

\* `Const x,5; Ret [x]` is selected as Li v,5; Ret and printed, after the
\* header and the label of the block, as `li <r>, 5` and `ret`.
RetExampleLowered ==
    func_in = RetExample =>
        /\ pc \in {"selected", "build_intervals", "scan_start", "scan_for",
                    "scan_return", "scan_done", "emitted"} =>
               /\ Len(machine_func) = 1
               /\ Len(machine_func[1].instrs) = 2
               /\ machine_func[1].instrs[1].op = "Li"
               /\ machine_func[1].instrs[1].rd = Virtual(0)
               /\ machine_func[1].instrs[1].imm = I64(5)
               /\ machine_func[1].instrs[2].op = "Ret"
        /\ pc = "emitted" =>
               \E r \in HardwareNames :
                   output = EmitHeader \o
                            <<[asm |-> ".label", label |-> Label(0)],
                              [asm |-> "li", rd |-> r, imm |-> <<"5">>],
                              [asm |-> "ret"]>>

\* C20: select_instructions lowers every Ret(args), whether args is empty
\* or not, to exactly one machine Ret and never stops with an error at a
\* Ret; the one-block function `Const x,5; Ret [x]` becomes Li v,5 followed
\* by Ret and is printed as `li <r>, 5` followed by `ret`.
C20_RetLoweredWithoutError ==
    /\ RetPushesOneRet
    /\ ~PanicsAtRet
    /\ RetExampleLowered

\* The parts of the claim about a Ret that is lowered, and the example.
RetLoweredWhenSelected == RetPushesOneRet /\ RetExampleLowered

\* The example has been printed.
RetExampleEmitted == func_in = RetExample /\ pc = "emitted"

\* The entries of sel_log of the instructions of block x, once the block
\* has been selected: the log follows the blocks and their instructions.
LogOfBlock(x) ==
    LET before == Len(Flatten([y \in 1..x |-> func_in[y - 1].instrs]))
    IN  SubSeq(sel_log, before + 1, before + Len(func_in[x].instrs))

\* What was pushed for the instructions of block x, in their order.
PushedForBlock(x) ==
    Flatten([k \in 1..Len(LogOfBlock(x)) |-> LogOfBlock(x)[k].pushed])

\* The machine block of each selected block holds, under the label of the
\* block, what was pushed for its instructions, in the order of the
\* instructions.
SelectionKeepsBlocksAndOrder ==
    /\ Len(machine_func) = sel_block
    /\ \A x \in 0..(sel_block - 1) :
           /\ machine_func[x + 1].name = Label(x)
           /\ \A k \in 1..Len(LogOfBlock(x)) :
                  LogOfBlock(x)[k].instr = func_in[x].instrs[k]
           /\ machine_func[x + 1].instrs = PushedForBlock(x)

\* C21: select_instructions emits at least one machine instruction for every
\* IR instruction other than a Phi (comparisons, logical operations and
\* Print included), in the machine block of the same label and in the
\* order of the IR instructions.
C21_EveryInstructionLowered ==
    /\ \A k \in DOMAIN sel_log :
           sel_log[k].instr.op # "Phi" => Len(sel_log[k].pushed) >= 1
    /\ SelectionKeepsBlocksAndOrder

\* emit_riscv has printed all it prints: the whole text, or the text up to
\* a panic on an offset below zero.
EmitStopped == pc \in {"emitted", "panic"} /\ output # <<>>

\* The VRegs the allocator returned as spilled.
SpilledVRegs == {v \in DOMAIN returned : returned[v].mark_spilled}

\* The lines that move sp or save and restore ra and s0.
FrameLines ==
    {i \in DOMAIN output : output[i].asm \in {"addi", "sd", "ld"}}

\* The prologue of a frame of the given size follows the label of the
\* function: sp lowered by the frame, ra saved at frame - 8 and s0 at
\* frame - 16, both offsets in 0..frame-1, and s0 set to sp.
PrologueOf(frame) ==
    /\ Len(output) >= Len(EmitHeader) + 4
    /\ \E ra_off, s0_off \in 0..(frame - 1) :
           /\ ra_off = frame - 8
           /\ s0_off = frame - 16
           /\ SubSeq(output, Len(EmitHeader) + 1, Len(EmitHeader) + 4) =
                  <<[asm |-> "addi", rd |-> "sp", rs1 |-> "sp",
                     imm |-> <<"-">> \o Decimal(frame)],
                    [asm |-> "sd", rs1 |-> "ra", offset |-> Decimal(ra_off),
                     base |-> "sp"],
                    [asm |-> "sd", rs1 |-> "s0", offset |-> Decimal(s0_off),
                     base |-> "sp"],
                    [asm |-> "mv", rd |-> "s0", rs1 |-> "sp"]>>

\* C22: with at least one spilled VReg, emit_riscv prints a prologue for
\* frame = 8 x (number of spilled VRegs) that lowers sp by frame and saves
\* ra at frame - 8 and s0 at frame - 16, both offsets non-negative and
\* inside the frame (also for one spill, frame = 8); without spills it
\* prints no prologue and no epilogue.
C22_PrologueOffsetsInFrame ==
    EmitStopped =>
        IF SpilledVRegs = {} THEN FrameLines = {}
        ELSE PrologueOf(8 * Cardinality(SpilledVRegs))

\* The statement for the frames of two spills or more and for no spill.
PrologueUnlessOneSpill ==
    (EmitStopped /\ Cardinality(SpilledVRegs) # 1) => C22_PrologueOffsetsInFrame

\* Frames of no, one, two and three spills have been printed.
FrameOf0 == pc = "emitted" /\ Cardinality(SpilledVRegs) = 0
FrameOf8 == EmitStopped /\ Cardinality(SpilledVRegs) = 1
FrameOf16 == pc = "emitted" /\ Cardinality(SpilledVRegs) = 2
FrameOf24 == pc = "emitted" /\ Cardinality(SpilledVRegs) = 3

\* The positions of the lines `ret` in the text.
RetLines == {i \in DOMAIN output : output[i].asm = "ret"}

\* The positions of the epilogue lines: ld s0, ld ra and the addi that
\* raises sp.
EpilogueLines ==
    {i \in DOMAIN output :
        \/ output[i].asm = "ld"
        \/ output[i].asm = "addi" /\ Head(output[i].imm) # "-"}

\* C29: in the text printed for a function with a non-empty frame, every
\* line `ret` comes after the epilogue lines ld s0, ld ra and
\* addi sp, sp, frame, so that sp, ra and s0 are restored before control
\* returns.
C29_EpilogueBeforeRet ==
    (pc = "emitted" /\ SpilledVRegs # {}) =>
        \A i \in RetLines :
            /\ Cardinality({j \in EpilogueLines : j < i}) >= 3
            /\ \A j \in EpilogueLines : j < i

\* What the text does hold: the three epilogue lines are its last lines,
\* after every line of every block.
EpilogueEndsText ==
    (pc = "emitted" /\ SpilledVRegs # {}) =>
        /\ EpilogueLines = (Len(output) - 2)..Len(output)
        /\ RetLines # {}
        /\ \A i \in RetLines : i < Len(output) - 2

\* The hardware registers a machine instruction names as operands.
HardwareOperands(instr) ==
    {reg \in Range(MachineDefs(instr)) \cup Range(MachineUses(instr)) : Len(reg) = 1}

\* The Virtual registers returned with the physical register phys.
VirtualsIn(phys) ==
    {v \in DOMAIN returned :
        v[1] = "Virtual" /\ returned[v].phy_reg = <<phys>>}

\* C28: register allocation never gives a Virtual register a physical
\* register a0..a7 that the machine function also names as a hardware
\* operand (Mv a_i, v of an argument or Mv v, a0 of a result) at a position
\* inside the live interval of that Virtual register.
C28_ArgumentRegistersNotClobbered ==
    pc \in {"scan_done", "emitted"} =>
        \A k \in 1..Len(ArgRegs) :
            \A v \in VirtualsIn(ArgRegs[k]) :
                \A p \in returned[v].start..returned[v].end :
                    Hardware(ArgRegs[k]) \notin
                        HardwareOperands(AllInstrs(machine_func)[p + 1])

\* A Virtual register has been given one of a0..a7.
VirtualInArgReg ==
    pc = "scan_done" /\ \E k \in 1..Len(ArgRegs) : VirtualsIn(ArgRegs[k]) # {}

\* The names an instruction reads, at every position that holds a name.
ReadNames(instr) ==
    IF instr.op \in BinaryOps THEN {instr.lhs, instr.rhs}
    ELSE IF instr.op = "Not" THEN {instr.arg}
    ELSE IF instr.op = "Assign" THEN {instr.rhs}
    ELSE IF instr.op = "Br" THEN {instr.cond}
    ELSE IF instr.op \in {"Call", "Ret"} THEN Range(instr.args)
    ELSE IF instr.op = "Print" THEN Range(instr.values)
    ELSE IF instr.op = "Phi" THEN Range(Flatten(instr.sources))
    ELSE {}

\* An SSA name v$k.
IsSsaName(name) == \E i \in 2..(Len(name) - 1) : name[i] = "$"

\* The instructions of block x before the i-th that define the variable var.
LocalDefsBefore(x, i, var) ==
    {j \in 1..(i - 1) :
        \E d \in Range(defs(blocks[x].instrs[j])) : OrigVar(d) = var}

\* The name read at pos is the name written by the closest definition of
\* its variable earlier in the block, when there is one.
ReadsClosestLocalDef(pos, name) ==
    LET before == LocalDefsBefore(pos[1], pos[2], OrigVar(name))
    IN  before # {} => name \in Range(defs(blocks[pos[1]].instrs[Max(before)]))

\* C23: rename_pass rewrites, in every non-Phi instruction of every kind,
\* each name read to the SSA name on top of the stack of its variable and
\* each name defined to a fresh v$k: after SSA construction every def,
\* a Const dest included, is an SSA name, and every name read (a Br
\* condition, an operand, an Assign rhs, a Call, Print or Ret argument)
\* whose variable is defined earlier in the block carries the name of
\* the closest such definition.
C23_RenameCoversEveryInstruction ==
    SsaDone =>
        \A pos \in Positions :
            InstrAt(pos).op # "Phi" =>
                /\ \A d \in Range(defs(InstrAt(pos))) : IsSsaName(d)
                /\ \A name \in ReadNames(InstrAt(pos)) : ReadsClosestLocalDef(pos, name)

\* The statement without the dest of Const and the condition of Br, on
\* names whose closest definition is not a Const.
RenameCoversMatchedInstructions ==
    SsaDone =>
        \A pos \in Positions :
            InstrAt(pos).op \notin {"Phi", "Const", "Br"} =>
                /\ \A d \in Range(defs(InstrAt(pos))) : IsSsaName(d)
                /\ \A name \in ReadNames(InstrAt(pos)) :
                       LET before == LocalDefsBefore(pos[1], pos[2], OrigVar(name))
                       IN  (before # {} /\ InstrAt(<<pos[1], Max(before)>>).op # "Const")
                               => ReadsClosestLocalDef(pos, name)

\* A Br whose condition is defined earlier in its block by an instruction
\* other than a Const, after SSA construction.
BrAfterLocalDef ==
    /\ SsaDone
    /\ \E pos \in Positions :
           /\ InstrAt(pos).op = "Br"
           /\ LET before == LocalDefsBefore(pos[1], pos[2], OrigVar(InstrAt(pos).cond))
              IN  /\ before # {}
                  /\ InstrAt(<<pos[1], Max(before)>>).op # "Const"
                  /\ ~ReadsClosestLocalDef(pos, InstrAt(pos).cond)

\* rename_pass on the block of the top frame is at its return: the body
\* is renamed and every child in the dominator tree has been visited.
AtRenameReturn == pc = "rename" /\ TopFrame.entered /\ TopFrame.rest = <<>>

\* The stack of var in the map stk; a variable without an entry has
\* nothing on its stack.
StackOf(stk, var) == IF var \in DOMAIN stk THEN stk[var] ELSE <<>>

\* The stack of var when rename_pass(x) started: the stack after the two
\* renaming loops of x without the names these loops created, which are
\* the names defined in x.
StackAtCall(x, var) ==
    SelectSeq(StackOf(stacks_at_end[x], var),
              LAMBDA name : name \notin Range(DefsOfInstrs(blocks[x].instrs)))

\* C24: when rename_pass(b) returns, the stack of every variable has
\* exactly the content it had when the call started, so that names pushed
\* in the dominator subtree of b are not the current names of a sibling
\* subtree.
C24_StacksRestoredOnReturn ==
    [][AtRenameReturn =>
          \A var \in DOMAIN stacks \cup DOMAIN stacks' :
              StackOf(stacks', var) = StackAtCall(TopFrame.block_id, var)]_vars

\* A return of rename_pass from a block that defines a name.
ReturnFromDefiningBlock ==
    /\ AtRenameReturn
    /\ \E d \in Range(DefsOfInstrs(blocks[TopFrame.block_id].instrs)) : IsSsaName(d)

\* The pops of a return take nothing off the stacks unless the block holds
\* a Const, whose dest is the only def that is still a key of the stacks.
ReturnPopsOnlyForConst ==
    [][(AtRenameReturn /\
        \A i \in 1..Len(blocks[TopFrame.block_id].instrs) :
            blocks[TopFrame.block_id].instrs[i].op # "Const")
          => stacks' = stacks]_vars

\* In the if-then-else diamond, the name x$1 defined in the then-block is
\* read in the else-block, its sibling in the dominator tree.
SiblingReadsName ==
    /\ SsaDone
    /\ N = 4
    /\ blocks[1].instrs[1] = Assign(<<"x", "$", "1">>, Y)
    /\ blocks[2].instrs[1] = PrintInstr(<<(<<"x", "$", "1">>)>>)

\* The blocks that hold a definition of var, by an instruction of the
\* input or by a Phi.
DefBlocks(var) ==
    {d \in BlockIds : Contains(DefsOfInstrs(blocks[d].instrs), var)}

\* The Phis of block m for var.
PhisFor(m, var) == {i \in PhisOf(m) : blocks[m].instrs[i].dest = var}

\* C27: after phi_insert, every block m of the iterated dominance frontier
\* of the blocks that define a variable v holds exactly one Phi for v,
\* also when m itself holds a definition of v (a loop header that
\* redefines v).  The frontier of every block that defines v after the
\* insertion, by an instruction or by a Phi, is in the iterated frontier.
C27_PhiAtEveryFrontierBlock ==
    PhiInserted =>
        \A var \in DOMAIN def_sites_map :
            \A d \in DefBlocks(var) : \A m \in BlockIds :
                InFrontier(d, m) => Cardinality(PhisFor(m, var)) = 1

\* The statement for the frontier blocks that held no definition of the
\* variable in the input, and at most one Phi for a variable in any block.
PhiAtFrontierBlocksWithoutDef ==
    PhiInserted =>
        \A var \in DOMAIN def_sites_map :
            /\ \A m \in BlockIds : Cardinality(PhisFor(m, var)) <= 1
            /\ \A d \in DefBlocks(var) : \A m \in BlockIds :
                   (InFrontier(d, m) /\ ~Contains(def_sites_map[var], m))
                       => Cardinality(PhisFor(m, var)) = 1

\* phi_insert has returned on a function whose loop header defines a
\* variable and is in its own dominance frontier.
HeaderRedefines ==
    /\ PhiInserted
    /\ \E var \in DOMAIN def_sites_map : \E m \in BlockIds :
           /\ Contains(def_sites_map[var], m)
           /\ InFrontier(m, m)
           /\ PhisFor(m, var) = {}

\* compute_block_def_use has been called on every block.
DefUseComputed == pc \in {"live_loop", "live_for", "live_check", "dce", "dce_done"}

\* The names some instruction of instrs reads when no earlier instruction
\* of instrs has defined them; an instruction reads before it writes.
UpwardExposed(instrs) ==
    {v \in UNION {ReadNames(instrs[i]) : i \in 1..Len(instrs)} :
        \E i \in 1..Len(instrs) :
            /\ v \in ReadNames(instrs[i])
            /\ \A j \in 1..(i - 1) : v \notin Range(defs(instrs[j]))}

\* C25: compute_block_def_use returns as def[b] every name an instruction
\* of b defines and as use[b] exactly the names an instruction of b reads
\* when no earlier instruction of b has defined them; a name an instruction
\* both reads and defines, with no earlier def (Add x, x, y), is in use[b].
C25_DefUseOfBlock ==
    DefUseComputed =>
        \A x \in DOMAIN func_in :
            /\ block_defs[x] = Range(DefsOfInstrs(func_in[x].instrs))
            /\ block_uses[x] = UpwardExposed(func_in[x].instrs)

\* What holds of the sets: def[b] is as stated, and use[b] holds the names
\* an instruction other than an Assign reads when neither an earlier
\* instruction nor the instruction itself defines them.
DefUseAsComputed ==
    DefUseComputed =>
        \A x \in DOMAIN func_in :
            LET instrs == func_in[x].instrs IN
            /\ block_defs[x] = Range(DefsOfInstrs(instrs))
            /\ block_uses[x] =
                   {v \in UNION {ReadNames(instrs[i]) : i \in 1..Len(instrs)} :
                       \E i \in 1..Len(instrs) :
                           /\ instrs[i].op # "Assign"
                           /\ v \in ReadNames(instrs[i])
                           /\ \A j \in 1..i : v \notin Range(defs(instrs[j]))}

\* A block that begins with Add x, x, y, whose use set lacks x.
SelfReadMissing ==
    /\ DefUseComputed
    /\ \E x \in DOMAIN func_in :
           /\ func_in[x].instrs[1] = Add(X, X, Y)
           /\ X \notin block_uses[x]
           /\ Y \in block_uses[x]

\* The interval the loop of linear_scan is at.
CurrIv == live_intervals[curr_idx]

\* The active intervals the retain closure keeps, and those it drops.
StillActive ==
    SelectSeq(active_alloc_intervals, LAMBDA old_iv : ~(old_iv.end < CurrIv.start))

Expired ==
    SelectSeq(active_alloc_intervals, LAMBDA old_iv : old_iv.end < CurrIv.start)

\* The loop is at an interval for which free_regs.pop() gives None.
NoFreeRegister ==
    /\ pc = "scan_for"
    /\ free_regs = <<>>
    /\ \A i \in 1..Len(Expired) : Expired[i].phy_reg = <<>>
    /\ StillActive # <<>>

\* The active interval with the greatest end: the last one, the intervals
\* being kept in the order of their ends.
Worst == StillActive[Len(StillActive)]

\* The interval of vreg as it will be returned, after the step.
EntryAfter(vreg) ==
    live_intervals'[CHOOSE i \in 1..Len(live_intervals') :
                        live_intervals'[i].vreg = vreg]

\* C26: when linear_scan finds no free register and the active interval
\* with the greatest end ends later than the current interval, the current
\* interval takes over its register and the evicted interval is returned
\* spilled (mark_spilled = true) without a physical register; in every
\* other case without a free register the current interval is returned
\* spilled without a register.  The map returned holds the intervals as
\* the loop left them.
C26_EvictedIntervalSpilled ==
    [][/\ NoFreeRegister =>
              IF Worst.end > CurrIv.end
              THEN /\ EntryAfter(CurrIv.vreg).phy_reg = Worst.phy_reg
                   /\ ~EntryAfter(CurrIv.vreg).mark_spilled
                   /\ EntryAfter(Worst.vreg).mark_spilled
                   /\ EntryAfter(Worst.vreg).phy_reg = <<>>
              ELSE /\ EntryAfter(CurrIv.vreg).mark_spilled
                   /\ EntryAfter(CurrIv.vreg).phy_reg = <<>>
       /\ pc = "scan_return" =>
              \A i \in 1..Len(live_intervals) :
                  returned'[live_intervals[i].vreg] = live_intervals[i]]_vars

\* The statement without the two requirements on the evicted interval, and
\* with what happens to it instead: it stays as it was, with its register
\* and unspilled.
EvictedIntervalKeepsRegister ==
    [][/\ NoFreeRegister =>
              IF Worst.end > CurrIv.end
              THEN /\ EntryAfter(CurrIv.vreg).phy_reg = Worst.phy_reg
                   /\ ~EntryAfter(CurrIv.vreg).mark_spilled
                   /\ ~EntryAfter(Worst.vreg).mark_spilled
                   /\ EntryAfter(Worst.vreg).phy_reg = Worst.phy_reg
                   /\ Worst.phy_reg # <<>>
              ELSE /\ EntryAfter(CurrIv.vreg).mark_spilled
                   /\ EntryAfter(CurrIv.vreg).phy_reg = <<>>
       /\ pc = "scan_for" =>
              \A i \in 1..(curr_idx - 1) : live_intervals'[i] = live_intervals[i]
       /\ pc = "scan_return" =>
              \A i \in 1..Len(live_intervals) :
                  returned'[live_intervals[i].vreg] = live_intervals[i]]_vars

\* The loop is at an eviction, and at a spill of the current interval.
AtEviction == NoFreeRegister /\ Worst.end > CurrIv.end

AtSpillOfCurrent == NoFreeRegister /\ ~(Worst.end > CurrIv.end)

(***************************************************************************)
(* C30.  Lexer::next_token terminates on every input and every call of it  *)
(* either consumes at least one character or returns Eof, so scan_all      *)
(* terminates for every input, the inputs with the comment character '#'   *)
(* included.                                                               *)
(***************************************************************************)
\* scan_all has returned, or the lexer has panicked.
LexStopped == pc \in {"scanned", "lexer_panic"}

\* A step in which next_token returns leaves pos beyond pos at the call,
\* or returns Eof.
CallConsumesOrEof ==
    pc = "next_token" /\ pc' # "next_token"
        => lex_pos' > lex_entry \/ next_token(lex_pos).token_type = "Eof"

\* C30: every run of scan_all stops, and every call of next_token that
\* returns has consumed a character or returns Eof.
C30_LexerTerminates == <>LexStopped /\ [][CallConsumesOrEof]_vars

\* The input is ASCII and holds no '#'.
AsciiWithoutComment == Range(lex_input) \cap ({"#"} \cup MultiByteChars) = {}

\* What the lexer does guarantee: on an ASCII input without '#', scan_all
\* returns and every call of next_token consumes a character or returns
\* Eof.
LexerTerminatesWithoutComment ==
    /\ AsciiWithoutComment => <>(pc = "scanned")
    /\ [][AsciiWithoutComment => CallConsumesOrEof]_vars

\* skip_comments returns to skip_whitespace_and_comments with pos still at
\* the '#' it was called for.
CommentNotConsumed ==
    /\ pc = "skip_whitespace_and_comments"
    /\ peek(lex_pos) = <<"#">>
    /\ lex_pos = lex_entry
    /\ lex_tokens # <<>>

\* The termination half of C30 on the ASCII inputs alone.  The input "#"
\* refutes it: skip_whitespace_and_comments calls skip_comments, which
\* returns at once, for ever.
AsciiInputStops == Range(lex_input) \cap MultiByteChars = {} => <>LexStopped

====
